---- MODULE Spec2Model ----
(***************************************************************************)
(* A model of the AgentsDotMD content pipeline: the line diff engine       *)
(* (js/diff.js), the prompt loader (js/prompt-loader.js), the option panel *)
(* that drives load cycles, and the preview's dependency filter.           *)
(*                                                                         *)
(* The specifications that share the module:                               *)
(*   SpecDiff   - computeDiff / computeLCS / formatUnifiedDiff             *)
(*   SpecLoad   - manifest cache, loader calls, load cycles, store         *)
(*   SpecFilter - FilePreview._filterFragments as a pure function          *)
(*   SpecCombo  - the combination match of loadCombinationFragments        *)
(*   SpecFlatten - the packager's flattenOptions                           *)
(*   SpecInterpolate - interpolate and the packager's interpolateTemplate  *)
(*   SpecFront - parseFrontmatter on texts built from header and body lines*)
(*   SpecRoundTrip - parseFrontmatter on written header blocks             *)
(*   SpecBuild - the manifest build script's main loops                    *)
(*   SpecWorker - the worker answers OAuth, proxy and contribution requests*)
(*   SpecCatalog - clicks on the catalog's technology cards                *)
(*   SpecStore - the reactive store: set, subscribe and unsubscribe        *)
(*   SpecPanel - the option panel's defaults and option changes            *)
(*   SpecEdit - local edits of one fragment in the file preview            *)
(*   SpecAuth - the OAuth client: startAuth and the token message          *)
(*   SpecRepo - the loader's repository setting and memoized manifest      *)
(*   SpecParsers - the build-time and the runtime header parser            *)
(*   SpecBus - EventBus: on, once, off and emit                            *)
(* Each leaves the other parts' variables at their initial values.         *)
(***************************************************************************)
EXTENDS Integers, Sequences, FiniteSets, TLC

VARIABLES
  \* ---- diff engine (js/diff.js)
  original,        \* the `original` argument, a string (sequence of characters)
  modified,        \* the `modified` argument
  originalLines,   \* original.split('\n')
  modifiedLines,   \* modified.split('\n')
  lcs,             \* computeLCS(originalLines, modifiedLines)
  result,          \* computeDiff's `result` array
  origIdx,         \* computeDiff's cursors (0-based, as in the source)
  modIdx,
  lcsIdx,
  contextLines,    \* formatUnifiedDiff's third argument
  unified,         \* formatUnifiedDiff's return value, as its list of lines
  diffPc,          \* position in formatUnifiedDiff / computeDiff
  \* ---- prompt loader (js/prompt-loader.js) and its callers
  cachedManifest,  \* prompt-loader's `cachedManifest`: "null" or "manifest"
  manifestFetches, \* every fetch of manifest.json issued so far, with its state
  calls,           \* every loader call (async function invocation) so far
  cycles,          \* every OptionPanel._loadAllFragments invocation so far
  store,           \* the Store's state keys the pipeline uses
  toasts,          \* TOAST_SHOW events emitted so far
  catalog,         \* TechCatalog: "init", "loading", "ready" or "failed"
  \* ---- FilePreview._filterFragments applied to drawn inputs
  filterFragments, \* the `fragments` argument
  filterOptions,   \* the `options` argument
  filterResult,    \* the returned array
  filterPc,        \* "call" before the filter has run, "done" after
  \* ---- loadCombinationFragments' match over a drawn catalog
  comboCatalog,    \* manifest.combinations
  comboIds,        \* the techIds argument: the selection, in selection order
  comboLoaded,     \* ids of the combinations whose fragments were requested
  \* ---- flattenOptions (js/zip-builder.js)
  flattenOptionsArg, \* the `options` argument: { techId: { optionId: value } }
  flat,            \* the returned flat map
  flattenPc,       \* "call" before flattenOptions has run, "done" after
  \* ---- interpolate (js/template-engine.js), interpolateTemplate (js/zip-builder.js)
  tplFn,           \* which of the two functions is called
  templateContent, \* the template string
  variables,       \* the variables / flatOptions argument
  tplOut,          \* the returned string
  tplPc,           \* "call" before the function has run, "done" after
  \* ---- parseFrontmatter (js/prompt-loader.js, scripts/build-manifest.js)
  markdownText,    \* the text handed to parseFrontmatter
  fmWritten,       \* the metadata map the text was written from, if any
  parsed,          \* the returned { metadata, content }
  fmPc,            \* "call" before parseFrontmatter has run, "done" after
  \* ---- scripts/build-manifest.js
  bmTechDirs,      \* the technology directories, in readdir order
  bmComboDirs,     \* the combination directories, in readdir order
  bmTechnologies,  \* main's `technologies` array, as the ids of its entries
  bmCombinations,  \* main's `combinations` array, as the ids of its entries
  bmIdx,           \* position of the running loop in its sorted id list
  bmPc,            \* "technologies", "combinations", "written" or "failed"
  wkStates,        \* the `state` values handleAuthRedirect has sent out
  wkHandler,       \* the handler that answered last
  wkRequest,       \* the request it answered
  wkCalls,         \* the outbound requests it made, in order
  wkStatus,        \* the status of its response
  \* ---- technology catalog (components/tech-catalog, components/tech-card)
  ctManifest,      \* the manifest's incompatibleWith list of each technology
  ctSelected,      \* the store's selectedTechIds
  ctCards,         \* each card's `selected` and `disabled` attributes
  ctClick,         \* the last click: its card, whether a toggle was dispatched
  ctToast,         \* the toast the last click raised: "none" or "warning"
  \* ---- reactive store (js/store.js)
  stState,         \* Store._state, for the keys of StoreKeys
  stListeners,     \* Store._listeners: the keys it has and their callbacks
  stUnsubscribers, \* the unsubscribe functions returned so far
  stSubscribed,    \* history: the subscriptions made and not cancelled since
  stInvoked,       \* the callback invocations made by the last operation
  stLast,          \* the last operation and its arguments
  \* ---- option panel (components/option-panel)
  opTechnologies,  \* the store's `technologies`
  opSelected,      \* the store's `selectedTechIds`
  opOptions,       \* the store's `options`
  opLast,          \* the last operation: a render or a change of a control
  \* ---- a fragment block of the file preview (components/file-preview)
  edContent,       \* fragment.content, as loaded
  edLocalEdit,     \* localEdits[fragmentId], Undefined when absent
  edEditing,       \* whether the edit area is shown
  edTextarea,      \* textarea.value
  edSaved,         \* history: the text of the last Save, Undefined before it
  edUsed,          \* the content the last render or suggestion used
  edLast,          \* the last handler
  auListeners,      \* the onMessage listeners on the window, by startAuth call
  auStarts,         \* how many times startAuth was invoked
  auToken,          \* store key githubToken
  auEmitted,        \* the AUTH_SUCCESS payloads emitted by the last step
  auMessages,       \* how many `message` events reached the window
  auLast,           \* the last operation of the OAuth client
  rpOwner,          \* repoOwner
  rpName,           \* repoName
  rpCached,         \* cachedManifest, as the base URL it came from
  rpCalls,          \* the loader calls made, with the manifest and URLs each used
  rpSets,           \* how many times setPromptRepoUrl was called
  psText,           \* the text of a fragment file
  psRuntime,        \* what the loader's parseFrontmatter returned for it
  psBuild,          \* what the build's parseFrontmatter returned for it
  ebHandlers,       \* EventBus._handlers
  ebRegs,           \* the on/once calls made: event, kind, whether the callback emits
  ebInvoked,        \* history: how often each registered callback was invoked
  ebCancelled,      \* history: handlers unsubscribed before they were ever invoked
  ebEmits           \* how many times emit was called from outside a handler

diffVars == <<original, modified, originalLines, modifiedLines, lcs, result,
              origIdx, modIdx, lcsIdx, contextLines, unified, diffPc>>

loadVars == <<cachedManifest, manifestFetches, calls, cycles, store, toasts, catalog>>

filterVars == <<filterFragments, filterOptions, filterResult, filterPc>>

comboVars == <<comboCatalog, comboIds, comboLoaded>>

flattenVars == <<flattenOptionsArg, flat, flattenPc>>

tplVars == <<tplFn, templateContent, variables, tplOut, tplPc>>

fmVars == <<markdownText, fmWritten, parsed, fmPc>>

bmVars == <<bmTechDirs, bmComboDirs, bmTechnologies, bmCombinations, bmIdx, bmPc>>

wkVars == <<wkStates, wkHandler, wkRequest, wkCalls, wkStatus>>

ctVars == <<ctManifest, ctSelected, ctCards, ctClick, ctToast>>

stVars == <<stState, stListeners, stUnsubscribers, stSubscribed, stInvoked, stLast>>

opVars == <<opTechnologies, opSelected, opOptions, opLast>>

edVars == <<edContent, edLocalEdit, edEditing, edTextarea, edSaved, edUsed, edLast>>

auVars == <<auListeners, auStarts, auToken, auEmitted, auMessages, auLast>>

rpVars == <<rpOwner, rpName, rpCached, rpCalls, rpSets>>

psVars == <<psText, psRuntime, psBuild>>

ebVars == <<ebHandlers, ebRegs, ebInvoked, ebCancelled, ebEmits>>

vars == <<diffVars, loadVars, filterVars, comboVars, flattenVars, tplVars,
          fmVars, bmVars, wkVars, ctVars, stVars, opVars, edVars, auVars,
          rpVars, psVars, ebVars>>

\* What the actions of one part leave alone.
notDiff == <<loadVars, filterVars, comboVars, flattenVars, tplVars, fmVars,
             bmVars, wkVars, ctVars, stVars, opVars, edVars, auVars, rpVars,
             psVars, ebVars>>
notLoad == <<diffVars, filterVars, comboVars, flattenVars, tplVars, fmVars,
             bmVars, wkVars, ctVars, stVars, opVars, edVars, auVars, rpVars,
             psVars, ebVars>>
notFilter == <<diffVars, loadVars, comboVars, flattenVars, tplVars, fmVars,
               bmVars, wkVars, ctVars, stVars, opVars, edVars, auVars,
               rpVars, psVars, ebVars>>
notCombo == <<diffVars, loadVars, filterVars, flattenVars, tplVars, fmVars,
              bmVars, wkVars, ctVars, stVars, opVars, edVars, auVars, rpVars,
              psVars, ebVars>>
notTpl == <<diffVars, loadVars, filterVars, comboVars, flattenVars, fmVars,
            bmVars, wkVars, ctVars, stVars, opVars, edVars, auVars, rpVars,
            psVars, ebVars>>
notFm == <<diffVars, loadVars, filterVars, comboVars, flattenVars, tplVars,
           bmVars, wkVars, ctVars, stVars, opVars, edVars, auVars, rpVars,
           psVars, ebVars>>
notFlatten == <<diffVars, loadVars, filterVars, comboVars, tplVars, fmVars,
                bmVars, wkVars, ctVars, stVars, opVars, edVars, auVars,
                rpVars, psVars, ebVars>>
notBm == <<diffVars, loadVars, filterVars, comboVars, flattenVars, tplVars,
           fmVars, wkVars, ctVars, stVars, opVars, edVars, auVars, rpVars,
           psVars, ebVars>>
notWk == <<diffVars, loadVars, filterVars, comboVars, flattenVars, tplVars,
           fmVars, bmVars, ctVars, stVars, opVars, edVars, auVars, rpVars,
           psVars, ebVars>>
notCt == <<diffVars, loadVars, filterVars, comboVars, flattenVars, tplVars,
           fmVars, bmVars, wkVars, stVars, opVars, edVars, auVars, rpVars,
           psVars, ebVars>>
notSt == <<diffVars, loadVars, filterVars, comboVars, flattenVars, tplVars,
           fmVars, bmVars, wkVars, ctVars, opVars, edVars, auVars, rpVars,
           psVars, ebVars>>
notOp == <<diffVars, loadVars, filterVars, comboVars, flattenVars, tplVars,
           fmVars, bmVars, wkVars, ctVars, stVars, edVars, auVars, rpVars,
           psVars, ebVars>>
notEd == <<diffVars, loadVars, filterVars, comboVars, flattenVars, tplVars,
           fmVars, bmVars, wkVars, ctVars, stVars, opVars, auVars, rpVars,
           psVars, ebVars>>
notAu == <<diffVars, loadVars, filterVars, comboVars, flattenVars, tplVars,
           fmVars, bmVars, wkVars, ctVars, stVars, opVars, edVars, rpVars,
           psVars, ebVars>>
notRp == <<diffVars, loadVars, filterVars, comboVars, flattenVars, tplVars,
           fmVars, bmVars, wkVars, ctVars, stVars, opVars, edVars, auVars,
           psVars, ebVars>>
notPs == <<diffVars, loadVars, filterVars, comboVars, flattenVars, tplVars,
           fmVars, bmVars, wkVars, ctVars, stVars, opVars, edVars, auVars,
           rpVars, ebVars>>
notEb == <<diffVars, loadVars, filterVars, comboVars, flattenVars, tplVars,
           fmVars, bmVars, wkVars, ctVars, stVars, opVars, edVars, auVars,
           rpVars, psVars>>

(***************************************************************************)
(* Bounds of the diff model.                                               *)
(***************************************************************************)
MaxStrLen == 5
MaxContext == 3

Max(x, y) == IF x >= y THEN x ELSE y
Min(x, y) == IF x <= y THEN x ELSE y

\* A string is a sequence of characters; NL is the line separator.
NL == "\n"
Chars == {"a", NL}

RECURSIVE StringsUpTo(_)
StringsUpTo(n) ==
  IF n = 0 THEN {<<>>}
  ELSE LET shorter == StringsUpTo(n - 1)
       IN shorter \cup {Append(s, c) : s \in {t \in shorter : Len(t) = n - 1}, c \in Chars}

Strings == StringsUpTo(MaxStrLen)

\* String.prototype.split('\n'): the pieces between separators; a string with
\* k separators has k + 1 pieces, so '' has the one piece '' and a trailing
\* separator leaves a last empty piece.
RECURSIVE SplitFrom(_, _, _)
SplitFrom(s, i, cur) ==
  IF i > Len(s) THEN <<cur>>
  ELSE IF s[i] = NL THEN <<cur>> \o SplitFrom(s, i + 1, <<>>)
  ELSE SplitFrom(s, i + 1, Append(cur, s[i]))

Split(s) == SplitFrom(s, 1, <<>>)

\* Array.prototype.join('\n')
RECURSIVE Join(_)
Join(ls) ==
  IF Len(ls) = 0 THEN <<>>
  ELSE IF Len(ls) = 1 THEN ls[1]
  ELSE ls[1] \o <<NL>> \o Join(Tail(ls))

(***************************************************************************)
(* computeLCS: the DP table, row by row, then the backtrack.               *)
(***************************************************************************)
\* A row that carries only the cell above on a mismatch.
RECURSIVE LCSRowUpOnly(_, _, _, _, _)
LCSRowUpOnly(a, b, prev, i, row) ==
  IF Len(row) = Len(b) THEN row
  ELSE LET j    == Len(row) + 1
           diag == IF j = 1 THEN 0 ELSE prev[j - 1]
           v    == IF a[i] = b[j] THEN diag + 1 ELSE prev[j]
       IN LCSRowUpOnly(a, b, prev, i, Append(row, v))

\* Row i of dp (columns 1..n; column 0 is 0), built left to right.
RECURSIVE LCSRow(_, _, _, _, _)
LCSRow(a, b, prev, i, row) ==
  IF Len(row) = Len(b) THEN row
  ELSE LET j    == Len(row) + 1
           diag == IF j = 1 THEN 0 ELSE prev[j - 1]
           left == IF j = 1 THEN 0 ELSE row[j - 1]
           up   == prev[j]
           v    == IF a[i] = b[j] THEN diag + 1 ELSE Max(up, left)
       IN LCSRow(a, b, prev, i, Append(row, v))

\* Rows 1..m of dp (row 0 is all 0).
RECURSIVE LCSTable(_, _, _)
LCSTable(a, b, rows) ==
  IF Len(rows) = Len(a) THEN rows
  ELSE LET i    == Len(rows) + 1
           prev == IF i = 1 THEN [j \in 1..Len(b) |-> 0] ELSE rows[i - 1]
       IN LCSTable(a, b, Append(rows, LCSRow(a, b, prev, i, <<>>)))

DpAt(dp, i, j) == IF i = 0 \/ j = 0 THEN 0 ELSE dp[i][j]

\* The backtrack loop `while (i > 0 && j > 0)`; lcs.unshift prepends.
RECURSIVE LCSBacktrack(_, _, _, _, _, _)
LCSBacktrack(a, b, dp, i, j, acc) ==
  IF ~(i > 0 /\ j > 0) THEN acc
  ELSE IF a[i] = b[j] THEN LCSBacktrack(a, b, dp, i - 1, j - 1, <<a[i]>> \o acc)
  ELSE IF DpAt(dp, i - 1, j) > DpAt(dp, i, j - 1)
       THEN LCSBacktrack(a, b, dp, i - 1, j, acc)
  ELSE LCSBacktrack(a, b, dp, i, j - 1, acc)

\* A backtrack that stops one row and column early (`i > 1 && j > 1`).
RECURSIVE LCSBacktrackShort(_, _, _, _, _, _)
LCSBacktrackShort(a, b, dp, i, j, acc) ==
  IF ~(i > 1 /\ j > 1) THEN acc
  ELSE IF a[i] = b[j] THEN LCSBacktrackShort(a, b, dp, i - 1, j - 1, <<a[i]>> \o acc)
  ELSE IF DpAt(dp, i - 1, j) > DpAt(dp, i, j - 1)
       THEN LCSBacktrackShort(a, b, dp, i - 1, j, acc)
  ELSE LCSBacktrackShort(a, b, dp, i, j - 1, acc)

computeLCSShort(a, b) ==
  LCSBacktrackShort(a, b, LCSTable(a, b, <<>>), Len(a), Len(b), <<>>)

computeLCS(a, b) ==
  LCSBacktrack(a, b, LCSTable(a, b, <<>>), Len(a), Len(b), <<>>)

(***************************************************************************)
(* computeDiff: the walk of both line arrays against the LCS, one loop     *)
(* iteration per step.                                                     *)
(***************************************************************************)
ContextEntry(line) == [type |-> "context", line |-> line]
RemovedEntry(line) == [type |-> "removed", line |-> line]
AddedAsContext(line) == [type |-> "context", line |-> line]
AddedEntry(line) == [type |-> "added", line |-> line]

\* The three branch conditions of the loop body, in the source's order.
IsContextStep ==
  /\ lcsIdx < Len(lcs)
  /\ origIdx < Len(originalLines)
  /\ modIdx < Len(modifiedLines)
  /\ originalLines[origIdx + 1] = lcs[lcsIdx + 1]
  /\ modifiedLines[modIdx + 1] = lcs[lcsIdx + 1]

\* The removed branch tried after the added branch.
IsRemovedStepAfterAdded ==
  /\ ~IsContextStep
  /\ origIdx < Len(originalLines)
  /\ (IF lcsIdx >= Len(lcs) THEN TRUE ELSE originalLines[origIdx + 1] # lcs[lcsIdx + 1])
  /\ ~(IF modIdx < Len(modifiedLines)
       THEN (IF lcsIdx >= Len(lcs) THEN TRUE ELSE modifiedLines[modIdx + 1] # lcs[lcsIdx + 1])
       ELSE FALSE)

IsRemovedStep ==
  /\ ~IsContextStep
  /\ origIdx < Len(originalLines)
  /\ (IF lcsIdx >= Len(lcs) THEN TRUE ELSE originalLines[origIdx + 1] # lcs[lcsIdx + 1])

\* The added branch taken only once the common lines are used up.
IsAddedStepAfterLcs ==
  /\ ~IsContextStep
  /\ ~IsRemovedStep
  /\ modIdx < Len(modifiedLines)
  /\ lcsIdx >= Len(lcs)

IsAddedStep ==
  /\ ~IsContextStep
  /\ ~IsRemovedStep
  /\ (IF modIdx < Len(modifiedLines)
      THEN (IF lcsIdx >= Len(lcs) THEN TRUE ELSE modifiedLines[modIdx + 1] # lcs[lcsIdx + 1])
      ELSE FALSE)

LoopCondition ==
  IF origIdx < Len(originalLines) THEN TRUE ELSE modIdx < Len(modifiedLines)

DiffInit ==
  /\ original \in Strings
  /\ modified \in Strings
  /\ contextLines = 0
  /\ originalLines = <<>>
  /\ modifiedLines = <<>>
  /\ lcs = <<>>
  /\ result = <<>>
  /\ origIdx = 0
  /\ modIdx = 0
  /\ lcsIdx = 0
  /\ unified = <<>>
  /\ diffPc = "call"

\* Entry of computeDiff: split both inputs, compute the LCS, reset the cursors.
computeDiffEnter ==
  /\ diffPc = "call"
  /\ originalLines' = Split(original)
  /\ modifiedLines' = Split(modified)
  /\ lcs' = computeLCS(Split(original), Split(modified))
  /\ result' = <<>>
  /\ origIdx' = 0
  /\ modIdx' = 0
  /\ lcsIdx' = 0
  /\ diffPc' = "walk"
  /\ UNCHANGED <<notDiff, original, modified, contextLines, unified>>

computeDiffContext ==
  /\ diffPc = "walk"
  /\ LoopCondition
  /\ IsContextStep
  /\ result' = Append(result, ContextEntry(originalLines[origIdx + 1]))
  /\ origIdx' = origIdx + 1
  /\ modIdx' = modIdx + 1
  /\ lcsIdx' = lcsIdx + 1
  /\ UNCHANGED <<notDiff, original, modified, originalLines, modifiedLines, lcs,
                 contextLines, unified, diffPc>>

computeDiffRemoved ==
  /\ diffPc = "walk"
  /\ LoopCondition
  /\ IsRemovedStep
  /\ result' = Append(result, RemovedEntry(originalLines[origIdx + 1]))
  /\ origIdx' = origIdx + 1
  /\ UNCHANGED <<notDiff, original, modified, originalLines, modifiedLines, lcs,
                 modIdx, lcsIdx, contextLines, unified, diffPc>>

computeDiffAdded ==
  /\ diffPc = "walk"
  /\ LoopCondition
  /\ IsAddedStep
  /\ result' = Append(result, AddedEntry(modifiedLines[modIdx + 1]))
  /\ modIdx' = modIdx + 1
  /\ UNCHANGED <<notDiff, original, modified, originalLines, modifiedLines, lcs,
                 origIdx, lcsIdx, contextLines, unified, diffPc>>

\* The loop condition is false: computeDiff returns `result`.
computeDiffReturn ==
  /\ diffPc = "walk"
  /\ ~LoopCondition
  /\ diffPc' = "diffed"
  /\ UNCHANGED <<notDiff, original, modified, originalLines, modifiedLines, lcs, result,
                 origIdx, modIdx, lcsIdx, contextLines, unified>>

(***************************************************************************)
(* formatUnifiedDiff: line numbering, change regions, hunks, output lines. *)
(* The returned string is the output lines joined by '\n'; `unified` holds *)
(* the list of lines, and the empty string is the empty list.              *)
(***************************************************************************)
\* The numbering loop: origLine / modLine are 1-based, 0 stands for null.
RECURSIVE NumberEntries(_, _, _, _)
NumberEntries(diff, k, origLine, modLine) ==
  IF k > Len(diff) THEN <<>>
  ELSE LET e == diff[k]
       IN IF e.type = "context"
          THEN <<[type |-> e.type, line |-> e.line, origLine |-> origLine, modLine |-> modLine]>>
               \o NumberEntries(diff, k + 1, origLine + 1, modLine + 1)
          ELSE IF e.type = "removed"
          THEN <<[type |-> e.type, line |-> e.line, origLine |-> origLine, modLine |-> 0]>>
               \o NumberEntries(diff, k + 1, origLine + 1, modLine)
          ELSE <<[type |-> e.type, line |-> e.line, origLine |-> 0, modLine |-> modLine]>>
               \o NumberEntries(diff, k + 1, origLine, modLine + 1)

\* Indices (0-based) of the non-context entries, ascending.
RECURSIVE ChangeIndicesFrom(_, _)
ChangeIndicesFrom(entries, k) ==
  IF k > Len(entries) THEN <<>>
  ELSE IF entries[k].type # "context"
       THEN <<k - 1>> \o ChangeIndicesFrom(entries, k + 1)
       ELSE ChangeIndicesFrom(entries, k + 1)

ChangeIndices(entries) == ChangeIndicesFrom(entries, 1)

\* A grouping loop that closes the hunk at every change.
RECURSIVE GroupHunksNoMerge(_, _, _, _, _, _, _)
GroupHunksNoMerge(changes, n, c, i, hunkStart, hunkEnd, hunks) ==
  IF i > Len(changes) THEN Append(hunks, [start |-> hunkStart, end |-> hunkEnd])
  ELSE GroupHunksNoMerge(changes, n, c, i + 1,
                         Max(0, changes[i] - c), Min(n - 1, changes[i] + c),
                         Append(hunks, [start |-> hunkStart, end |-> hunkEnd]))

\* The grouping loop over changeIndices[1..]; returns the list of hunks.
RECURSIVE GroupHunks(_, _, _, _, _, _, _)
GroupHunks(changes, n, c, i, hunkStart, hunkEnd, hunks) ==
  IF i > Len(changes) THEN Append(hunks, [start |-> hunkStart, end |-> hunkEnd])
  ELSE LET newStart == Max(0, changes[i] - c)
           newEnd   == Min(n - 1, changes[i] + c)
       IN IF newStart <= hunkEnd + 1
          THEN GroupHunks(changes, n, c, i + 1, hunkStart, newEnd, hunks)
          ELSE GroupHunks(changes, n, c, i + 1, newStart, newEnd,
                          Append(hunks, [start |-> hunkStart, end |-> hunkEnd]))

Hunks(entries, c) ==
  LET changes == ChangeIndices(entries)
      n       == Len(entries)
  IN GroupHunks(changes, n, c, 2,
                Max(0, changes[1] - c), Min(n - 1, changes[1] + c), <<>>)

\* entries.slice(hunk.start, hunk.end + 1)
HunkEntries(entries, hunk) == SubSeq(entries, hunk.start + 1, hunk.end + 1)

OrigSide(es) == SelectSeq(es, LAMBDA e : e.type \in {"context", "removed"})
ModSide(es)  == SelectSeq(es, LAMBDA e : e.type \in {"context", "added"})

\* The `@@ -origStart,origCount +modStart,modCount @@` line of a hunk;
\* `origStart || 1` and `modStart || 1` turn a missing start into 1.
HunkHeader(es) ==
  LET o == OrigSide(es)
      m == ModSide(es)
  IN [kind |-> "@@", line |-> <<>>,
      origStart |-> IF Len(o) = 0 THEN 1 ELSE o[1].origLine,
      origCount |-> Len(o),
      modStart  |-> IF Len(m) = 0 THEN 1 ELSE m[1].modLine,
      modCount  |-> Len(m)]

TextLine(kind, line) ==
  [kind |-> kind, line |-> line, origStart |-> 0, origCount |-> 0,
   modStart |-> 0, modCount |-> 0]

EntryLine(e) ==
  TextLine(IF e.type = "context" THEN " " ELSE IF e.type = "removed" THEN "-" ELSE "+",
           e.line)

RECURSIVE FormatHunks(_, _, _)
FormatHunks(entries, hunks, k) ==
  IF k > Len(hunks) THEN <<>>
  ELSE LET es == HunkEntries(entries, hunks[k])
       IN <<HunkHeader(es)>> \o [i \in 1..Len(es) |-> EntryLine(es[i])]
          \o FormatHunks(entries, hunks, k + 1)

\* The body of formatUnifiedDiff after its call of computeDiff.
FormatDiff(diff, c) ==
  LET entries == NumberEntries(diff, 1, 1, 1)
  IN IF Len(ChangeIndices(entries)) = 0 THEN <<>>
     ELSE <<TextLine("---", <<"o">>), TextLine("+++", <<"m">>)>>
          \o FormatHunks(entries, Hunks(entries, c), 1)

formatUnifiedDiff ==
  \E c \in 0..MaxContext :
    /\ diffPc = "diffed"
    /\ contextLines' = c
    /\ unified' = FormatDiff(result, c)
    /\ diffPc' = "formatted"
    /\ UNCHANGED <<notDiff, original, modified, originalLines,
                   modifiedLines, lcs, result, origIdx, modIdx, lcsIdx>>

(***************************************************************************)
(* JavaScript values, typed so that strict equality can tell the number 8  *)
(* from the string "8".                                                    *)
(***************************************************************************)
Undefined == [type |-> "undefined", text |-> "", items |-> <<>>]
Str(t)    == [type |-> "string", text |-> t, items |-> <<>>]
Num(t)    == [type |-> "number", text |-> t, items |-> <<>>]
Bool(t)   == [type |-> "boolean", text |-> t, items |-> <<>>]
Arr(xs)   == [type |-> "array", text |-> "", items |-> xs]

\* a == b for primitives: a number and a numeric string compare by value.
LooseEquals(a, b) ==
  \/ a = b
  \/ a.type \in {"string", "number"} /\ b.type \in {"string", "number"} /\ a.text = b.text

\* a === b for primitives (no coercion).
StrictEquals(a, b) == a = b

\* Array.prototype.indexOf(v) !== -1 (strict equality on each element).
RECURSIVE IndexOfFrom(_, _, _)
IndexOfFrom(xs, v, k) ==
  IF k > Len(xs) THEN -1
  ELSE IF StrictEquals(xs[k], v) THEN k - 1
  ELSE IndexOfFrom(xs, v, k + 1)

IndexOf(xs, v) == IndexOfFrom(xs, v, 1)

(***************************************************************************)
(* FilePreview._filterFragments.                                           *)
(* A fragment is [id, technology, sortOrder, deps]; deps is                *)
(* metadata.optionDependencies: kind "none" (absent), "scalar" (present    *)
(* but not an object) or "map" with entries <<[optionId, required], ...>>. *)
(* options maps a technology id to a map from option id to value.          *)
(***************************************************************************)
NoDeps == [kind |-> "none", entries |-> <<>>]
DepMap(entries) == [kind |-> "map", entries |-> entries]
Dep(optionId, required) == [optionId |-> optionId, required |-> required]

EmptyMap == [x \in {} |-> Undefined]

\* options[techId] || {}
TechOptionsOf(options, techId) ==
  IF techId \in DOMAIN options THEN options[techId] ELSE EmptyMap

\* techOptions[optionId]
ValueOf(techOptions, optionId) ==
  IF optionId \in DOMAIN techOptions THEN techOptions[optionId] ELSE Undefined

\* The test applied to one entry: TRUE when the loop goes on, FALSE when the
\* callback returns false.
EntryMatchesLoose(requiredValue, currentValue) ==
  IF requiredValue.type = "array"
  THEN \E k \in 1..Len(requiredValue.items) : LooseEquals(requiredValue.items[k], currentValue)
  ELSE LooseEquals(currentValue, requiredValue)

EntryMatches(requiredValue, currentValue) ==
  IF requiredValue.type = "array"
  THEN IndexOf(requiredValue.items, currentValue) # -1
  ELSE StrictEquals(currentValue, requiredValue)

\* The `for` loop over Object.keys(deps), from key k on.
RECURSIVE DepsLoop(_, _, _)
DepsLoop(fragment, options, k) ==
  IF k > Len(fragment.deps.entries) THEN TRUE
  ELSE LET optionId      == fragment.deps.entries[k].optionId
           requiredValue == fragment.deps.entries[k].required
           techOptions   == TechOptionsOf(options, fragment.technology)
           currentValue  == ValueOf(techOptions, optionId)
       IN IF ~EntryMatches(requiredValue, currentValue) THEN FALSE
          ELSE DepsLoop(fragment, options, k + 1)

\* The filter callback.
KeepsFragment(fragment, options) ==
  IF fragment.deps.kind # "map" THEN TRUE
  ELSE DepsLoop(fragment, options, 1)

FilterFragments(fragments, options) ==
  SelectSeq(fragments, LAMBDA f : KeepsFragment(f, options))

(***************************************************************************)
(* The prompt repository the loader reads: manifest.json and the files it  *)
(* names.  Technology A has two fragments (the second gated on an option), *)
(* one option and one template; B has one fragment; the combination A+B    *)
(* has one fragment.                                                       *)
(***************************************************************************)
Choice(id, default) == [id |-> id, default |-> default]

Manifest ==
  [technologies |->
     << [id |-> "A", fragments |-> <<"a1.md", "a2.md">>, hasTemplates |-> TRUE,
         templates |-> <<"ta.tmpl">>, incompatibleWith |-> {},
         options |-> << [id |-> "mode", type |-> "single-select",
                         choices |-> <<Choice("x", FALSE), Choice("y", TRUE)>>,
                         default |-> Undefined] >>],
        [id |-> "B", fragments |-> <<"b1.md">>, hasTemplates |-> FALSE,
         templates |-> <<>>, incompatibleWith |-> {},
         options |-> <<>>] >>,
   combinations |->
     << [id |-> "A+B", technologies |-> <<"A", "B">>, fragments |-> <<"ab.md">>] >>]

TechIds == {Manifest.technologies[i].id : i \in 1..Len(Manifest.technologies)}

\* The parsed content of each fragment file (parseFrontmatter's result).
FragmentFile(path) ==
  CASE path = "a1.md" -> [id |-> "a1", technology |-> "A", sortOrder |-> 100, deps |-> NoDeps]
    [] path = "a2.md" -> [id |-> "a2", technology |-> "A", sortOrder |-> 300,
                          deps |-> DepMap(<<Dep("mode", Str("y"))>>)]
    [] path = "b1.md" -> [id |-> "b1", technology |-> "B", sortOrder |-> 150, deps |-> NoDeps]
    [] path = "ab.md" -> [id |-> "ab", technology |-> "A+B", sortOrder |-> 500, deps |-> NoDeps]
    [] OTHER          -> [id |-> path, technology |-> "", sortOrder |-> 0, deps |-> NoDeps]

\* The item a loader call's map callback returns for a fetched file.
LoadedItem(fn, path) ==
  IF fn = "loadTemplates"
  THEN [id |-> path, technology |-> "", sortOrder |-> 0, deps |-> NoDeps]
  ELSE FragmentFile(path)

\* manifest.technologies.find(t => t.id === technologyId): its index, or 0.
RECURSIVE FindTechFrom(_, _, _)
FindTechFrom(techs, id, k) ==
  IF k > Len(techs) THEN 0
  ELSE IF techs[k].id = id THEN k
  ELSE FindTechFrom(techs, id, k + 1)

FindTech(techs, id) == FindTechFrom(techs, id, 1)

\* arr.includes(x)
Includes(arr, x) == \E k \in 1..Len(arr) : arr[k] = x

\* The match as an equality of the two sorted id lists.
IsMatchExact(combo, techIds) ==
  /\ Len(combo.technologies) = Len(techIds)
  /\ \A k \in 1..Len(combo.technologies) :
       \E j \in 1..Len(techIds) : techIds[j] = combo.technologies[k]

\* comboTechs.every(t => sortedIds.includes(t)); sorting changes neither side's members.
IsMatch(combo, techIds) ==
  \A k \in 1..Len(combo.technologies) : Includes(techIds, combo.technologies[k])

(***************************************************************************)
(* Bounds of the load model.                                               *)
(***************************************************************************)
MaxCycles == 2
MaxCatalogLoads == 1

\* The outcomes of one fetch: 2xx with a readable body, a non-OK status, or a
\* rejected promise (network error, or the body read failing).
Outcomes == {"ok", "httpError", "reject"}

(***************************************************************************)
(* The mutable state of the load model as one record, so that the code     *)
(* that runs between two suspension points composes as functions.          *)
(***************************************************************************)
World ==
  [cachedManifest |-> cachedManifest, manifestFetches |-> manifestFetches,
   calls |-> calls, cycles |-> cycles, store |-> store, toasts |-> toasts,
   catalog |-> catalog]

Commit(w) ==
  /\ cachedManifest' = w.cachedManifest
  /\ manifestFetches' = w.manifestFetches
  /\ calls' = w.calls
  /\ cycles' = w.cycles
  /\ store' = w.store
  /\ toasts' = w.toasts
  /\ catalog' = w.catalog

\* store.set(key, value) for the keys of the pipeline.
StoreSet(w, key, value) == [w EXCEPT !.store = [@ EXCEPT ![key] = value]]

\* eventBus.emit(TOAST_SHOW, {message, type})
EmitToast(w, message) == [w EXCEPT !.toasts = Append(@, message)]

\* The same items collected with unshift instead of push.
RECURSIVE SettledItemsReversed(_, _, _, _)
SettledItemsReversed(fn, paths, slots, k) ==
  IF k > Len(paths) THEN <<>>
  ELSE SettledItemsReversed(fn, paths, slots, k + 1)
       \o (IF slots[k] = "ok" THEN <<LoadedItem(fn, paths[k])>> ELSE <<>>)

\* results.filter(Boolean) of a settled Promise.all: the items of the slots
\* that hold a value, in index order.
RECURSIVE SettledItems(_, _, _, _)
SettledItems(fn, paths, slots, k) ==
  IF k > Len(paths) THEN <<>>
  ELSE (IF slots[k] = "ok" THEN <<LoadedItem(fn, paths[k])>> ELSE <<>>)
       \o SettledItems(fn, paths, slots, k + 1)

RECURSIVE BeginFiles(_, _, _)
RECURSIVE FilesDone(_, _)
RECURSIVE NextCombo(_, _, _)

\* Promise.all(paths.map(async path => fetch ...)): every fetch is issued at
\* once; an empty list resolves at once.
BeginFiles(w, k, paths) ==
  LET w1 == [w EXCEPT !.calls[k].st = "files",
                      !.calls[k].paths = paths,
                      !.calls[k].slots = [i \in 1..Len(paths) |-> "pending"]]
  IN IF Len(paths) = 0 THEN FilesDone(w1, k) ELSE w1

\* Every fetch of the current Promise.all has settled without rejecting.
FilesDone(w, k) ==
  LET c     == w.calls[k]
      items == SettledItems(c.fn, c.paths, c.slots, 1)
  IN IF c.fn = "loadCombinationFragments"
     THEN NextCombo([w EXCEPT !.calls[k].value = @ \o items], k, c.combo + 1)
     ELSE [w EXCEPT !.calls[k].st = "resolved", !.calls[k].value = items]

\* The `for (const combo of combinations)` loop of loadCombinationFragments,
\* from combination n on.
NextCombo(w, k, n) ==
  LET combos == Manifest.combinations
  IN IF n > Len(combos) THEN [w EXCEPT !.calls[k].st = "resolved", !.calls[k].combo = n]
     ELSE IF ~IsMatch(combos[n], w.calls[k].ids) THEN NextCombo(w, k, n + 1)
     ELSE BeginFiles([w EXCEPT !.calls[k].combo = n], k, combos[n].fragments)

\* The body of a loader function after `await getManifest()` has returned.
AfterManifest(w, k) ==
  LET c    == w.calls[k]
      tech == FindTech(Manifest.technologies, c.ids[1])
  IN CASE c.fn = "loadFragments" ->
            IF tech = 0 THEN [w EXCEPT !.calls[k].st = "rejected", !.calls[k].rejectedBy = "notFound"]
            ELSE BeginFiles(w, k, Manifest.technologies[tech].fragments)
       [] c.fn = "loadTemplates" ->
            IF tech = 0 \/ ~Manifest.technologies[tech].hasTemplates
            THEN [w EXCEPT !.calls[k].st = "resolved"]
            ELSE BeginFiles(w, k, Manifest.technologies[tech].templates)
       [] OTHER -> NextCombo(w, k, 1)

NewCall(fn, cy, ids) ==
  [fn |-> fn, cy |-> cy, ids |-> ids, st |-> "manifest", fetch |-> 0, combo |-> 0,
   paths |-> <<>>, slots |-> <<>>, value |-> <<>>, rejectedBy |-> "", cacheHit |-> FALSE]

\* loadManifest() up to its `await fetch(url)`: one more manifest fetch in flight.
IssueManifestFetch(w, k) ==
  [w EXCEPT !.manifestFetches = Append(@, "inflight"),
            !.calls[k].fetch = Len(w.manifestFetches) + 1]

\* getManifest(): the cached manifest if there is one, else loadManifest().
GetManifest(w, k) ==
  IF w.cachedManifest = "manifest"
  THEN AfterManifest([w EXCEPT !.calls[k].cacheHit = TRUE], k)
  ELSE IssueManifestFetch(w, k)

\* Invoking loadFragments / loadCombinationFragments / loadTemplates: the call
\* runs to its first suspension point.
StartCall(w, fn, cy, ids) ==
  LET k == Len(w.calls) + 1
  IN GetManifest([w EXCEPT !.calls = Append(@, NewCall(fn, cy, ids))], k)

\* selectedIds.map(id => fn(id)), from position n on.
RECURSIVE StartCalls(_, _, _, _, _)
StartCalls(w, fn, cy, ids, n) ==
  IF n > Len(ids) THEN w
  ELSE StartCalls(StartCall(w, fn, cy, <<ids[n]>>), fn, cy, ids, n + 1)

(***************************************************************************)
(* OptionPanel._loadAllFragments: one cycle per invocation.                *)
(***************************************************************************)
\* The calls of cycle cy to loader function fn, in the order they were made.
CycleCalls(w, cy, fn) ==
  SelectSeq(w.calls, LAMBDA c : c.cy = cy /\ c.fn = fn)

AnyRejected(cs) == \E i \in 1..Len(cs) : cs[i].st = "rejected"
AllResolved(cs) == \A i \in 1..Len(cs) : cs[i].st = "resolved"

\* fragmentResults.flat()
RECURSIVE Flat(_, _)
Flat(cs, n) == IF n > Len(cs) THEN <<>> ELSE cs[n].value \o Flat(cs, n + 1)

\* The catch block.
CycleCatch(w, cy) ==
  EmitToast([w EXCEPT !.cycles[cy].phase = "failed"], "Failed to load some prompt fragments.")

\* The code of _loadAllFragments that runs once the promise it awaits settles
\* (and on, while the next awaited promise is already settled).
RECURSIVE CycleAdvance(_, _)
CycleAdvance(w, cy) ==
  IF cy = 0 THEN w
  ELSE
  LET cyc   == w.cycles[cy]
      frags == CycleCalls(w, cy, "loadFragments")
      combo == CycleCalls(w, cy, "loadCombinationFragments")
      tmpls == CycleCalls(w, cy, "loadTemplates")
  IN CASE cyc.phase = "fragments" ->
            IF AnyRejected(frags) THEN CycleCatch(w, cy)
            ELSE IF AllResolved(frags)
            THEN CycleAdvance(StartCall([w EXCEPT !.cycles[cy].phase = "combos"],
                                        "loadCombinationFragments", cy, cyc.ids), cy)
            ELSE w
       [] cyc.phase = "combos" ->
            IF AnyRejected(combo) THEN CycleCatch(w, cy)
            ELSE IF AllResolved(combo)
            THEN LET allFragments == Flat(frags, 1) \o Flat(combo, 1)
                     w1 == StoreSet([w EXCEPT !.cycles[cy].phase = "templates",
                                              !.cycles[cy].allFragments = allFragments],
                                    "fragments", allFragments)
                 IN CycleAdvance(StartCalls(w1, "loadTemplates", cy, cyc.ids, 1), cy)
            ELSE w
       [] cyc.phase = "templates" ->
            IF AnyRejected(tmpls) THEN CycleCatch(w, cy)
            ELSE IF AllResolved(tmpls)
            THEN StoreSet([w EXCEPT !.cycles[cy].phase = "done",
                                    !.cycles[cy].templateFiles = Flat(tmpls, 1)],
                          "templateFiles", Flat(tmpls, 1))
            ELSE w
       [] OTHER -> w

\* _loadAllFragments(selectedIds) up to its first suspension point.
LoadAllFragments(w, selectedIds) ==
  LET cy == Len(w.cycles) + 1
      w1 == [w EXCEPT !.cycles = Append(@, [ids |-> selectedIds, phase |-> "fragments",
                                            allFragments |-> <<>>, templateFiles |-> <<>>])]
  IN CycleAdvance(StartCalls(w1, "loadFragments", cy, selectedIds, 1), cy)

(***************************************************************************)
(* OptionPanel._render and _handleOptionChange.                            *)
(***************************************************************************)
\* (option.choices || []).find(c => c.default): its index, or 0.
RECURSIVE FindDefaultChoice(_, _)
FindDefaultChoice(choices, k) ==
  IF k > Len(choices) THEN 0
  ELSE IF choices[k].default THEN k
  ELSE FindDefaultChoice(choices, k + 1)

getDefaultValue(option) ==
  CASE option.type = "single-select" ->
         LET d == FindDefaultChoice(option.choices, 1)
         IN IF d # 0 THEN Str(option.choices[d].id)
            ELSE IF Len(option.choices) > 0 THEN Str(option.choices[1].id)
            ELSE Str("")
    [] option.type = "toggle" -> IF option.default = Bool("true") THEN Bool("true") ELSE Bool("false")
    [] option.type = "freeform" -> IF option.default \in {Undefined, Str("")} THEN Str("") ELSE option.default
    [] OTHER -> Str("")

\* The loop with the test `!currentOptions[techId][option.id]`.
RECURSIVE InitOptionDefaultsFalsy(_, _, _)
InitOptionDefaultsFalsy(techOptions, opts, k) ==
  IF k > Len(opts) THEN techOptions
  ELSE InitOptionDefaultsFalsy(
         IF ValueOf(techOptions, opts[k].id) \in {Undefined, Bool("false"), Str("")}
         THEN (opts[k].id :> getDefaultValue(opts[k])) @@ techOptions
         ELSE techOptions,
         opts, k + 1)

\* The inner `for (const option of tech.options)` loop that fills in defaults.
RECURSIVE InitOptionDefaults(_, _, _)
InitOptionDefaults(techOptions, opts, k) ==
  IF k > Len(opts) THEN techOptions
  ELSE InitOptionDefaults(
         IF ValueOf(techOptions, opts[k].id) = Undefined
         THEN (opts[k].id :> getDefaultValue(opts[k])) @@ techOptions
         ELSE techOptions,
         opts, k + 1)

\* The `for (const techId of selectedIds)` loop of _render.
RECURSIVE InitSelectedOptions(_, _, _, _)
InitSelectedOptions(currentOptions, technologies, selectedIds, k) ==
  IF k > Len(selectedIds) THEN currentOptions
  ELSE LET techId == selectedIds[k]
           tech   == FindTech(technologies, techId)
       IN IF tech = 0 \/ Len(technologies[tech].options) = 0
          THEN InitSelectedOptions(currentOptions, technologies, selectedIds, k + 1)
          ELSE InitSelectedOptions(
                 (techId :> InitOptionDefaults(TechOptionsOf(currentOptions, techId),
                                               technologies[tech].options, 1))
                   @@ currentOptions,
                 technologies, selectedIds, k + 1)

\* OptionPanel._render, run by the store on every change of selectedTechIds.
Render(w) ==
  LET selectedIds == w.store.selectedTechIds
  IN IF Len(selectedIds) = 0 THEN w
     ELSE LoadAllFragments(
            StoreSet(w, "options",
                     InitSelectedOptions(w.store.options, w.store.technologies, selectedIds, 1)),
            selectedIds)

\* currentSelected.splice(index, 1)
RemoveId(ids, id) == SelectSeq(ids, LAMBDA x : x # id)

\* TechCatalog._checkIncompatibilities: TRUE when a message is returned.
checkIncompatibilities(techId, currentSelected) ==
  LET tech == FindTech(Manifest.technologies, techId)
  IN /\ tech # 0
     /\ \E i \in 1..Len(currentSelected) :
          currentSelected[i] \in Manifest.technologies[tech].incompatibleWith

\* Whether the panel has drawn a control for this option and this value.
HasControl(w, techId, optionId, value) ==
  LET tech == FindTech(w.store.technologies, techId)
  IN /\ Includes(w.store.selectedTechIds, techId)
     /\ tech # 0
     /\ \E o \in 1..Len(w.store.technologies[tech].options) :
          LET option == w.store.technologies[tech].options[o]
          IN /\ option.id = optionId
             /\ \E c \in 1..Len(option.choices) : value = Str(option.choices[c].id)

(***************************************************************************)
(* The actions of the load model.                                          *)
(***************************************************************************)
LoadInit ==
  /\ cachedManifest = "null"
  /\ manifestFetches = <<>>
  /\ calls = <<>>
  /\ cycles = <<>>
  /\ store = [technologies |-> <<>>, selectedTechIds |-> <<>>, options |-> EmptyMap,
              fragments |-> <<>>, templateFiles |-> <<>>]
  /\ toasts = <<>>
  /\ catalog = "init"

CatalogLoads == Len(SelectSeq(calls, LAMBDA c : c.fn = "loadManifest"))

\* TechCatalog.connectedCallback -> _loadTechnologies: loadManifest() is called
\* directly, past getManifest and its cache.
loadTechnologies ==
  /\ catalog \in {"init", "failed"}
  /\ CatalogLoads < MaxCatalogLoads
  /\ LET k  == Len(calls) + 1
         w1 == [World EXCEPT !.calls = Append(@, NewCall("loadManifest", 0, <<>>)),
                             !.catalog = "loading"]
     IN Commit(IssueManifestFetch(w1, k))
  /\ UNCHANGED notLoad

\* loadManifest's test of its fetch: the promise fulfilled and response.ok.
ManifestAvailableNoOkCheck(outcome) == outcome # "reject"

ManifestAvailable(outcome) == outcome = "ok"

\* The rest of loadManifest once its fetch settles, and the code of its
\* caller (getManifest and the loader function, or the catalog) that follows.
ManifestSettled(w, k, outcome) ==
  LET c  == w.calls[k]
      w0 == [w EXCEPT !.manifestFetches[c.fetch] = IF outcome = "ok" THEN "ok" ELSE "failed"]
  IN IF ManifestAvailable(outcome)
     THEN LET w1 == StoreSet(w0, "technologies", Manifest.technologies)
          IN IF c.fn = "loadManifest"
             THEN [w1 EXCEPT !.calls[k].st = "resolved", !.catalog = "ready"]
             ELSE CycleAdvance(AfterManifest([w1 EXCEPT !.cachedManifest = "manifest"], k), c.cy)
     ELSE LET w1 == [w0 EXCEPT !.calls[k].st = "rejected",
                               !.calls[k].rejectedBy = "manifest"]
          IN IF c.fn = "loadManifest"
             THEN EmitToast([w1 EXCEPT !.catalog = "failed"],
                            "Failed to load technologies. Please try again.")
             ELSE CycleAdvance(w1, c.cy)

manifestFetchDone ==
  \E k \in 1..Len(calls), outcome \in Outcomes :
    /\ calls[k].st = "manifest"
    /\ Commit(ManifestSettled(World, k, outcome))
    /\ UNCHANGED notLoad

\* One file fetch of a call's Promise.all settles: the map callback runs on,
\* and Promise.all settles when it rejects or when it was the last one.
FileSettled(w, k, j, outcome) ==
  LET c == w.calls[k]
  IN IF outcome = "reject"
     THEN CycleAdvance([w EXCEPT !.calls[k].st = "rejected",
                                 !.calls[k].rejectedBy = "item",
                                 !.calls[k].slots[j] = "rejected"], c.cy)
     ELSE LET slot == IF outcome = "ok" THEN "ok" ELSE "null"
              w1   == [w EXCEPT !.calls[k].slots[j] = slot]
          IN IF \E i \in 1..Len(c.slots) : i # j /\ c.slots[i] = "pending"
             THEN w1
             ELSE CycleAdvance(FilesDone(w1, k), c.cy)

\* A call whose result can still reach the store: once a cycle has taken its
\* catch block, what its remaining calls resolve to is read by nobody, and
\* the model stops following their file fetches.
Awaited(k) == cycles[calls[k].cy].phase # "failed"

fileFetchDone ==
  \E k \in 1..Len(calls) :
    \E j \in 1..Len(calls[k].slots), outcome \in Outcomes :
      /\ calls[k].st = "files"
      /\ calls[k].slots[j] = "pending"
      /\ Awaited(k)
      /\ Commit(FileSettled(World, k, j, outcome))
      /\ UNCHANGED notLoad

\* TechCatalog._handleCardToggle for a click on the card of techId, then the
\* store's notification of OptionPanel._render.
CardToggled(w, techId, selected) ==
  LET currentSelected == w.store.selectedTechIds
  IN IF selected /\ ~Includes(currentSelected, techId)
        /\ checkIncompatibilities(techId, currentSelected)
     THEN EmitToast(w, "incompatible")
     ELSE Render(StoreSet(w, "selectedTechIds",
                          IF selected
                          THEN IF Includes(currentSelected, techId) THEN currentSelected
                               ELSE Append(currentSelected, techId)
                          ELSE RemoveId(currentSelected, techId)))

handleCardToggle ==
  \E techId \in TechIds :
    /\ catalog = "ready"
    /\ Len(cycles) < MaxCycles
    /\ Commit(CardToggled(World, techId, ~Includes(store.selectedTechIds, techId)))
    /\ UNCHANGED notLoad

\* OptionPanel._handleOptionChange.
OptionChanged(w, techId, optionId, value) ==
  LET options == (techId :> ((optionId :> value) @@ TechOptionsOf(w.store.options, techId)))
                   @@ w.store.options
      w1      == StoreSet(w, "options", options)
  IN LoadAllFragments(w1, w1.store.selectedTechIds)

handleOptionChange ==
  \E techId \in TechIds, optionId \in {"mode"}, value \in {Str("x"), Str("y")} :
    /\ HasControl(World, techId, optionId, value)
    /\ Len(cycles) < MaxCycles
    /\ Commit(OptionChanged(World, techId, optionId, value))
    /\ UNCHANGED notLoad

(***************************************************************************)
(* The filter applied to drawn inputs.                                     *)
(***************************************************************************)
MaxFilterFragments == 2

FilterDeps ==
  {NoDeps, [kind |-> "scalar", entries |-> <<>>],
   DepMap(<<Dep("k", Str("x"))>>),
   DepMap(<<Dep("k", Num("8"))>>),
   DepMap(<<Dep("k", Arr(<<Str("x"), Str("y")>>))>>),
   DepMap(<<Dep("k", Arr(<<Str("8")>>))>>),
   DepMap(<<Dep("k", Str("x")), Dep("j", Bool("true"))>>)}

FilterInputFragments ==
  {[id |-> "f", technology |-> "A", sortOrder |-> 100, deps |-> d] : d \in FilterDeps}

RECURSIVE SeqsUpTo(_, _)
SeqsUpTo(S, n) ==
  IF n = 0 THEN {<<>>}
  ELSE LET shorter == SeqsUpTo(S, n - 1)
       IN shorter \cup {Append(q, x) : q \in {t \in shorter : Len(t) = n - 1}, x \in S}

FilterInputOptions ==
  {EmptyMap} \cup
  {("A" :> m) : m \in {EmptyMap} \cup
                      {("k" :> v) : v \in {Str("x"), Str("y"), Str("z"), Num("8"), Str("8")}} \cup
                      {("k" :> v) @@ ("j" :> Bool("true")) : v \in {Str("x"), Str("z")}}}

FilterInit ==
  /\ filterFragments \in SeqsUpTo(FilterInputFragments, MaxFilterFragments)
  /\ filterOptions \in FilterInputOptions
  /\ filterResult = <<>>
  /\ filterPc = "call"

filterFragmentsCall ==
  /\ filterPc = "call"
  /\ filterResult' = FilterFragments(filterFragments, filterOptions)
  /\ filterPc' = "done"
  /\ UNCHANGED <<filterFragments, filterOptions, notFilter>>

(***************************************************************************)
(* loadCombinationFragments' choice of combinations, over drawn catalogs   *)
(* and selections of up to MaxSelected of the ids A..D.                    *)
(***************************************************************************)
MaxSelected == 3

ComboTechIds == {"A", "B", "C", "D"}

Combo(id, technologies) == [id |-> id, technologies |-> technologies, fragments |-> <<id>>]

ComboCatalogs ==
  {<<Combo("A+B", <<"A", "B">>), Combo("A+D", <<"A", "D">>)>>,
   <<Combo("B+C+D", <<"D", "B", "C">>), Combo("C", <<"C">>)>>,
   <<Combo("A+C", <<"C", "A">>), Combo("A+B+C", <<"A", "B", "C">>), Combo("B+D", <<"B", "D">>)>>}

\* The `for (const combo of combinations)` loop with its `continue`: the
\* combinations whose fragments are requested, from combination n on.
RECURSIVE MatchingCombos(_, _, _)
MatchingCombos(combinations, techIds, n) ==
  IF n > Len(combinations) THEN <<>>
  ELSE (IF IsMatch(combinations[n], techIds) THEN <<combinations[n].id>> ELSE <<>>)
       \o MatchingCombos(combinations, techIds, n + 1)

ComboInit ==
  /\ comboCatalog \in ComboCatalogs
  /\ comboIds = <<>>
  /\ comboLoaded = <<>>

\* A card is toggled and loadCombinationFragments runs on the new selection.
comboToggle ==
  \E id \in ComboTechIds :
    /\ IF Includes(comboIds, id) THEN TRUE ELSE Len(comboIds) < MaxSelected
    /\ comboIds' = IF Includes(comboIds, id) THEN RemoveId(comboIds, id)
                   ELSE Append(comboIds, id)
    /\ comboLoaded' = MatchingCombos(comboCatalog, comboIds', 1)
    /\ UNCHANGED <<comboCatalog, notCombo>>

(***************************************************************************)
(* JavaScript objects with string keys: the own properties in insertion    *)
(* order (none of the keys drawn here is an array index, which would be    *)
(* enumerated first).  Keys are strings, as sequences of characters.       *)
(***************************************************************************)
EmptyObject == <<>>

HasOwn(obj, key) == \E i \in 1..Len(obj) : obj[i].key = key

\* obj[key]
ObjGet(obj, key) ==
  IF HasOwn(obj, key) THEN obj[CHOOSE i \in 1..Len(obj) : obj[i].key = key].value
  ELSE Undefined

\* obj[key] = value
ObjSet(obj, key, value) ==
  IF HasOwn(obj, key)
  THEN [i \in 1..Len(obj) |-> IF obj[i].key = key THEN [key |-> key, value |-> value] ELSE obj[i]]
  ELSE Append(obj, [key |-> key, value |-> value])

(***************************************************************************)
(* flattenOptions.                                                         *)
(***************************************************************************)
MaxComponents == 2
MaxOptions == 2

\* The inner loop over Object.entries(techOpts), from entry k on.
RECURSIVE FlattenTechOpts(_, _, _, _)
FlattenTechOpts(acc, techId, techOpts, k) ==
  IF k > Len(techOpts) THEN acc
  ELSE LET key   == techOpts[k].key
           value == techOpts[k].value
       IN FlattenTechOpts(ObjSet(ObjSet(acc, key, value), techId \o <<".">> \o key, value),
                          techId, techOpts, k + 1)

\* The outer loop over Object.entries(options), from entry n on.
RECURSIVE FlattenLoop(_, _, _)
FlattenLoop(acc, options, n) ==
  IF n > Len(options) THEN acc
  ELSE FlattenLoop(FlattenTechOpts(acc, options[n].key, options[n].value, 1), options, n + 1)

flattenOptions(options) == FlattenLoop(EmptyObject, options, 1)

\* Objects over `keys` with up to n properties (an object holds a key once),
\* each value drawn from `values`.
RECURSIVE ObjectsUpTo(_, _, _)
ObjectsUpTo(keys, values, n) ==
  IF n = 0 THEN {EmptyObject}
  ELSE LET smaller == ObjectsUpTo(keys, values, n - 1)
       IN smaller \cup
          UNION {{Append(o, [key |-> k, value |-> v]) :
                    k \in {x \in keys : ~HasOwn(o, x)}, v \in values} :
                 o \in {x \in smaller : Len(x) = n - 1}}

WellFormedObject(obj) == \A i, j \in 1..Len(obj) : obj[i].key = obj[j].key => i = j

FlattenComponentIds == {<<"a">>, <<"a", ".", "b">>, <<"z">>}
FlattenOptionIds == {<<"b", ".", "c">>, <<"c">>, <<"o">>}
FlattenValues == {Num("1"), Num("2")}

FlattenInit ==
  /\ flattenOptionsArg \in
       {o \in ObjectsUpTo(FlattenComponentIds,
                          {t \in ObjectsUpTo(FlattenOptionIds, FlattenValues, MaxOptions) :
                             WellFormedObject(t)},
                          MaxComponents) : WellFormedObject(o)}
  /\ flat = EmptyObject
  /\ flattenPc = "call"

flattenOptionsCall ==
  /\ flattenPc = "call"
  /\ flat' = flattenOptions(flattenOptionsArg)
  /\ flattenPc' = "done"
  /\ UNCHANGED <<flattenOptionsArg, notFlatten>>

(***************************************************************************)
(* The template engine's interpolate and escapeHtml, and the packager's    *)
(* interpolateTemplate.  Strings are sequences of characters; a value is a *)
(* string or a number, with the characters String(value) gives.            *)
(***************************************************************************)
MaxSegments == 3

StringValue(chars) == [type |-> "string", chars |-> chars]
NumberValue(digits) == [type |-> "number", chars |-> digits]

\* String(value)
StringOf(value) == value.chars

IsWhitespace(c) == c \in {" ", "\t", "\n"}

\* String.prototype.trim
RECURSIVE TrimStart(_)
TrimStart(s) ==
  IF Len(s) > 0 /\ IsWhitespace(Head(s)) THEN TrimStart(Tail(s)) ELSE s

RECURSIVE TrimEnd(_)
TrimEnd(s) ==
  IF Len(s) > 0 /\ IsWhitespace(s[Len(s)]) THEN TrimEnd(SubSeq(s, 1, Len(s) - 1)) ELSE s

Trim(s) == TrimEnd(TrimStart(s))

\* str.replace(/c/g, entity) for a one-character pattern c.
RECURSIVE ReplaceChar(_, _, _)
ReplaceChar(s, c, entity) ==
  IF Len(s) = 0 THEN <<>>
  ELSE (IF Head(s) = c THEN entity ELSE <<Head(s)>>) \o ReplaceChar(Tail(s), c, entity)

Amp == <<"&", "a", "m", "p", ";">>
Lt == <<"&", "l", "t", ";">>
Gt == <<"&", "g", "t", ";">>
Quot == <<"&", "q", "u", "o", "t", ";">>
Apos == <<"&", "#", "3", "9", ";">>

escapeHtml(str) ==
  IF str.type # "string" THEN StringOf(str)
  ELSE ReplaceChar(ReplaceChar(ReplaceChar(ReplaceChar(ReplaceChar(
         str.chars, "&", Amp), "<", Lt), ">", Gt), "\"", Quot), "'", Apos)

\* The index of the first "}" of s at or after position i, Len(s) + 1 if none.
RECURSIVE NextCloseBrace(_, _)
NextCloseBrace(s, i) ==
  IF i > Len(s) THEN Len(s) + 1
  ELSE IF s[i] = "}" THEN i
  ELSE NextCloseBrace(s, i + 1)

\* /\{\{([^}]+)\}\}/ tried at position i: the index of the last character of
\* the match, 0 when there is none.
MatchEnd(s, i) ==
  IF i + 1 <= Len(s) /\ s[i] = "{" /\ s[i + 1] = "{"
  THEN LET e == NextCloseBrace(s, i + 2)
       IN IF e > i + 2 /\ e + 1 <= Len(s) /\ s[e + 1] = "}" THEN e + 1 ELSE 0
  ELSE 0

\* The replacer that drops a placeholder it has no value for.
InterpolateReplacerBlank(match, varName, vs) ==
  LET trimmed == Trim(varName)
  IN IF HasOwn(vs, trimmed) THEN escapeHtml(ObjGet(vs, trimmed)) ELSE <<>>

\* interpolate's replacer callback.
InterpolateReplacer(match, varName, vs) ==
  LET trimmed == Trim(varName)
  IN IF HasOwn(vs, trimmed) THEN escapeHtml(ObjGet(vs, trimmed)) ELSE match

\* interpolateTemplate's replacer callback.
TemplateReplacer(match, varName, flatOptions) ==
  LET trimmed == Trim(varName)
  IN IF ObjGet(flatOptions, trimmed) # Undefined
     THEN StringOf(ObjGet(flatOptions, trimmed))
     ELSE match

\* A replace that scans the text it has just inserted.
RECURSIVE ReplacePlaceholdersAgain(_, _, _, _)
ReplacePlaceholdersAgain(fn, s, vs, i) ==
  IF i > Len(s) THEN <<>>
  ELSE LET e == MatchEnd(s, i)
           match == SubSeq(s, i, e)
           inserted == IF fn = "interpolate"
                       THEN InterpolateReplacer(match, SubSeq(s, i + 2, e - 2), vs)
                       ELSE TemplateReplacer(match, SubSeq(s, i + 2, e - 2), vs)
       IN IF e = 0 THEN <<s[i]>> \o ReplacePlaceholdersAgain(fn, s, vs, i + 1)
          ELSE IF inserted = match THEN match \o ReplacePlaceholdersAgain(fn, s, vs, e + 1)
          ELSE ReplacePlaceholdersAgain(fn, inserted \o SubSeq(s, e + 1, Len(s)), vs, 1)

\* content.replace(/\{\{([^}]+)\}\}/g, replacer), scanning from position i.
RECURSIVE ReplacePlaceholders(_, _, _, _)
ReplacePlaceholders(fn, s, vs, i) ==
  IF i > Len(s) THEN <<>>
  ELSE LET e == MatchEnd(s, i)
       IN IF e = 0 THEN <<s[i]>> \o ReplacePlaceholders(fn, s, vs, i + 1)
          ELSE (IF fn = "interpolate"
                THEN InterpolateReplacer(SubSeq(s, i, e), SubSeq(s, i + 2, e - 2), vs)
                ELSE TemplateReplacer(SubSeq(s, i, e), SubSeq(s, i + 2, e - 2), vs))
               \o ReplacePlaceholders(fn, s, vs, e + 1)

\* The trimmed names of the placeholders a scan of s with
\* /\{\{([^}]+)\}\}/g meets from position i on, one per match, in match order.
RECURSIVE ScannedNames(_, _)
ScannedNames(s, i) ==
  IF i > Len(s) THEN <<>>
  ELSE LET e == MatchEnd(s, i)
       IN IF e = 0 THEN ScannedNames(s, i + 1)
          ELSE <<Trim(SubSeq(s, i + 2, e - 2))>> \o ScannedNames(s, e + 1)

\* An add that does not look for the name first.
AddNameAlways(names, name) == Append(names, name)

\* variables.add(name) on a Set / if (!variables.includes(name)) variables.push(name)
AddName(names, name) ==
  IF \E i \in 1..Len(names) : names[i] = name THEN names ELSE Append(names, name)

RECURSIVE AddNames(_, _, _)
AddNames(names, found, n) ==
  IF n > Len(found) THEN names ELSE AddNames(AddName(names, found[n]), found, n + 1)

\* extractVariables: Array.from of the Set filled by the regex.exec loop.
extractVariables(content) ==
  IF Len(content) = 0 THEN <<>> ELSE AddNames(<<>>, ScannedNames(content, 1), 1)

\* buildTechnology's scan of a template file's content.
TemplateVariables(content) == AddNames(<<>>, ScannedNames(content, 1), 1)

interpolate(content, vs) ==
  IF Len(content) = 0 THEN <<>>
  ELSE ReplacePlaceholders("interpolate", content, vs, 1)

interpolateTemplate(content, flatOptions) ==
  ReplacePlaceholders("interpolateTemplate", content, flatOptions, 1)

\* The pieces templates are drawn from; none holds a markup character.
TemplateSegments ==
  {<<"{", "{", "x", "}", "}">>, <<"{", "{", " ", "x", " ", "}", "}">>,
   <<"{", "{", " ", "y", "}", "}">>, <<"{", "{", "}", "}">>,
   <<"{">>, <<"}">>, <<"a">>, <<" ">>}

RECURSIVE Concat(_)
Concat(segments) ==
  IF Len(segments) = 0 THEN <<>> ELSE Head(segments) \o Concat(Tail(segments))

Templates == {Concat(q) : q \in SeqsUpTo(TemplateSegments, MaxSegments)}

Property(key, value) == [key |-> key, value |-> value]

VariableMaps ==
  {EmptyObject,
   <<Property(<<"x">>, StringValue(<<"<", "b", ">">>))>>,
   <<Property(<<"x">>, StringValue(<<"a", "&", "\"", "'">>))>>,
   <<Property(<<"x">>, NumberValue(<<"8">>)), Property(<<"y">>, StringValue(<<"<">>))>>,
   <<Property(<<"{", "x">>, StringValue(<<"v">>))>>,
   <<Property(<<"x">>, StringValue(<<"{", "{", "y", "}", "}">>)),
     Property(<<"y">>, StringValue(<<"v">>))>>}

Interpolators == {"interpolate", "interpolateTemplate"}
Extractors == {"extractVariables", "buildTechnology"}

TplInit ==
  /\ tplFn \in Interpolators \cup Extractors
  /\ templateContent \in Templates
  /\ variables \in IF tplFn \in Interpolators THEN VariableMaps ELSE {EmptyObject}
  /\ tplOut = <<>>
  /\ tplPc = "call"

interpolateCall ==
  /\ tplPc = "call"
  /\ tplFn \in Interpolators
  /\ tplOut' = IF tplFn = "interpolate" THEN interpolate(templateContent, variables)
               ELSE interpolateTemplate(templateContent, variables)
  /\ tplPc' = "done"
  /\ UNCHANGED <<tplFn, templateContent, variables, notTpl>>

\* extractVariables(templateContent), or buildTechnology's scan of the same
\* content; tplOut is the returned list of names.
extractVariablesCall ==
  /\ tplPc = "call"
  /\ tplFn \in Extractors
  /\ tplOut' = IF tplFn = "extractVariables" THEN extractVariables(templateContent)
               ELSE TemplateVariables(templateContent)
  /\ tplPc' = "done"
  /\ UNCHANGED <<tplFn, templateContent, variables, notTpl>>

(***************************************************************************)
(* parseFrontmatter and parseScalarValue.  The text is a sequence of       *)
(* characters; a metadata value is a boolean, a number, a string or an     *)
(* object holding the entries of a nested map.                             *)
(***************************************************************************)
MaxLines == 4
MaxEntries == 2

BooleanValue(chars) == [type |-> "boolean", chars |-> chars]
MapValue(entries) == [type |-> "object", entries |-> entries]

Delimiter == <<"-", "-", "-">>
TrueChars == <<"t", "r", "u", "e">>
FalseChars == <<"f", "a", "l", "s", "e">>

\* s.startsWith(p), s.endsWith(p)
StartsWith(s, p) == Len(s) >= Len(p) /\ SubSeq(s, 1, Len(p)) = p
EndsWith(s, p) == Len(s) >= Len(p) /\ SubSeq(s, Len(s) - Len(p) + 1, Len(s)) = p

\* s.indexOf(p, from), positions counted from 0.
RECURSIVE IndexOfString(_, _, _)
IndexOfString(s, p, from) ==
  IF from + Len(p) > Len(s) THEN -1
  ELSE IF SubSeq(s, from + 1, from + Len(p)) = p THEN from
  ELSE IndexOfString(s, p, from + 1)

\* s.substring(a, b) and s.substring(a), positions counted from 0.
Substring(s, a, b) == SubSeq(s, a + 1, b)
SubstringFrom(s, a) == SubSeq(s, a + 1, Len(s))

IsDigit(c) == c \in {"0", "1", "2", "3", "4", "5", "6", "7", "8", "9"}

\* /^\d+$/
AllDigits(s) == Len(s) > 0 /\ \A i \in 1..Len(s) : IsDigit(s[i])

\* /^\d+\.\d+$/
IsDecimal(s) ==
  \E d \in 2..(Len(s) - 1) :
    /\ s[d] = "."
    /\ AllDigits(SubSeq(s, 1, d - 1))
    /\ AllDigits(SubSeq(s, d + 1, Len(s)))

RECURSIVE StripLeadingZeros(_)
StripLeadingZeros(s) ==
  IF Len(s) > 1 /\ Head(s) = "0" THEN StripLeadingZeros(Tail(s)) ELSE s

RECURSIVE StripTrailingZeros(_)
StripTrailingZeros(s) ==
  IF Len(s) > 0 /\ s[Len(s)] = "0" THEN StripTrailingZeros(SubSeq(s, 1, Len(s) - 1)) ELSE s

\* parseInt(raw, 10) of a digit string, as the number's decimal digits.
ParseInt(raw) == NumberValue(StripLeadingZeros(raw))

\* parseFloat(raw) of digits "." digits, as the number's decimal form.
ParseFloat(raw) ==
  LET d == CHOOSE i \in 1..Len(raw) : raw[i] = "."
      whole == StripLeadingZeros(SubSeq(raw, 1, d - 1))
      fraction == StripTrailingZeros(SubSeq(raw, d + 1, Len(raw)))
  IN NumberValue(IF fraction = <<>> THEN whole ELSE whole \o <<".">> \o fraction)

\* parseScalarValue without the boolean forms.
parseScalarValueNoBoolean(raw) ==
  IF AllDigits(raw) THEN ParseInt(raw)
  ELSE IF IsDecimal(raw) THEN ParseFloat(raw)
  ELSE IF \/ StartsWith(raw, <<"\"">>) /\ EndsWith(raw, <<"\"">>)
          \/ StartsWith(raw, <<"'">>) /\ EndsWith(raw, <<"'">>)
  THEN StringValue(SubSeq(raw, 2, Len(raw) - 1))
  ELSE StringValue(raw)

\* parseScalarValue reading an empty value as an empty map.
parseScalarValueEmptyMap(raw) ==
  IF raw = <<>> THEN MapValue(EmptyObject)
  ELSE IF raw = TrueChars THEN BooleanValue(TrueChars)
  ELSE IF raw = FalseChars THEN BooleanValue(FalseChars)
  ELSE parseScalarValueNoBoolean(raw)

parseScalarValue(raw) ==
  IF raw = TrueChars THEN BooleanValue(TrueChars)
  ELSE IF raw = FalseChars THEN BooleanValue(FalseChars)
  ELSE IF AllDigits(raw) THEN ParseInt(raw)
  ELSE IF IsDecimal(raw) THEN ParseFloat(raw)
  ELSE IF \/ StartsWith(raw, <<"\"">>) /\ EndsWith(raw, <<"\"">>)
          \/ StartsWith(raw, <<"'">>) /\ EndsWith(raw, <<"'">>)
  THEN StringValue(SubSeq(raw, 2, Len(raw) - 1))
  ELSE StringValue(raw)

\* The index of the first whitespace of s at or after position i, Len(s) + 1 if none.
RECURSIVE NextWhitespace(_, _)
NextWhitespace(s, i) ==
  IF i > Len(s) THEN Len(s) + 1
  ELSE IF IsWhitespace(s[i]) THEN i
  ELSE NextWhitespace(s, i + 1)

\* The greatest index of a ":" among s[2..hi], 0 if there is none.
RECURSIVE LastColon(_, _)
LastColon(s, hi) ==
  IF hi < 2 THEN 0
  ELSE IF s[hi] = ":" THEN hi
  ELSE LastColon(s, hi - 1)

NoMatch == [ok |-> FALSE, key |-> <<>>, value |-> <<>>]

\* /^(\S+):\s*(.*)$/ on s, with group 2 trimmed: the greedy \S+ gives up
\* characters until a ":" follows it.
TopMatch(s) ==
  LET colon == LastColon(s, NextWhitespace(s, 1) - 1)
  IN IF colon = 0 THEN NoMatch
     ELSE [ok |-> TRUE, key |-> SubSeq(s, 1, colon - 1),
           value |-> Trim(SubSeq(s, colon + 1, Len(s)))]

RECURSIVE SkipIndent(_)
SkipIndent(s) ==
  IF Len(s) > 0 /\ Head(s) \in {" ", "\t"} THEN SkipIndent(Tail(s)) ELSE s

\* /^[ \t]+(\S+):\s*(.*)$/ on line, with group 2 trimmed.
IndentedMatch(line) ==
  IF Len(line) > 0 /\ Head(line) \in {" ", "\t"} THEN TopMatch(SkipIndent(line)) ELSE NoMatch

\* The loop's variables before the first line: currentKey and currentMap are null.
LoopStart ==
  [metadata |-> EmptyObject, keySet |-> FALSE, currentKey |-> <<>>,
   mapOpen |-> FALSE, currentMap |-> EmptyObject]

\* One pass of the loop over the lines of the header block.
ParseLine(st, line) ==
  LET trimmedLine == Trim(line)
      indentedMatch == IndentedMatch(line)
      topMatch == TopMatch(trimmedLine)
  IN IF trimmedLine = <<>> THEN st
     ELSE IF indentedMatch.ok /\ st.keySet /\ st.mapOpen
     THEN LET currentMap == ObjSet(st.currentMap, indentedMatch.key,
                                   parseScalarValue(indentedMatch.value))
          IN [st EXCEPT !.currentMap = currentMap,
                        !.metadata = ObjSet(@, st.currentKey, MapValue(currentMap))]
     ELSE IF topMatch.ok
     THEN IF topMatch.value = <<>>
          THEN [st EXCEPT !.keySet = TRUE, !.currentKey = topMatch.key,
                          !.mapOpen = TRUE, !.currentMap = EmptyObject]
          ELSE [st EXCEPT !.keySet = TRUE, !.currentKey = topMatch.key,
                          !.mapOpen = FALSE, !.currentMap = EmptyObject,
                          !.metadata = ObjSet(@, topMatch.key, parseScalarValue(topMatch.value))]
     ELSE st

RECURSIVE ParseLines(_, _, _)
ParseLines(st, lines, n) ==
  IF n > Len(lines) THEN st ELSE ParseLines(ParseLine(st, lines[n]), lines, n + 1)

\* The metadata read from a header block.
ParseBlock(frontmatterBlock) == ParseLines(LoopStart, Split(frontmatterBlock), 1).metadata

parseFrontmatter(text) ==
  LET trimmed == Trim(text)
      secondDelimiter == IndexOfString(trimmed, Delimiter, 3)
  IN IF ~StartsWith(trimmed, Delimiter) THEN [metadata |-> EmptyObject, content |-> trimmed]
     ELSE IF secondDelimiter = -1 THEN [metadata |-> EmptyObject, content |-> trimmed]
     ELSE [metadata |-> ParseBlock(Trim(Substring(trimmed, 3, secondDelimiter))),
           content |-> Trim(SubstringFrom(trimmed, secondDelimiter + 3))]

\* The lines texts are drawn from.
FrontLines ==
  {Delimiter,
   <<"k", ":", " ", "1">>,
   <<"k", ":">>,
   <<" ", "s", ":", " ", "t", "r", "u", "e">>,
   <<" ", "s", ":">>,
   <<"j", ":", " ", "a", "-", "-", "-", "b">>,
   <<"b">>}

NotParsed == [metadata |-> EmptyObject, content |-> <<>>]

FrontInit ==
  /\ markdownText \in {Join(ls) : ls \in SeqsUpTo(FrontLines, MaxLines)}
  /\ fmWritten = EmptyObject
  /\ parsed = NotParsed
  /\ fmPc = "call"

\* A scalar as it is written in a header: String(value).
ScalarLine(indent, entry) == indent \o entry.key \o <<":", " ">> \o StringOf(entry.value)

RECURSIVE NestedLines(_, _)
NestedLines(entries, n) ==
  IF n > Len(entries) THEN <<>>
  ELSE <<ScalarLine(<<" ", " ">>, entries[n])>> \o NestedLines(entries, n + 1)

RECURSIVE EntryLines(_, _)
EntryLines(metadata, n) ==
  IF n > Len(metadata) THEN <<>>
  ELSE (IF metadata[n].value.type = "object"
        THEN <<metadata[n].key \o <<":">>>> \o NestedLines(metadata[n].value.entries, 1)
        ELSE <<ScalarLine(<<>>, metadata[n])>>)
       \o EntryLines(metadata, n + 1)

\* The header block of a metadata map: delimiter line, one `key: value` line
\* per scalar, a `key:` line and indented `subkey: value` lines per nested
\* map, delimiter line; then the body.
WriteHeader(metadata, body) ==
  Join(<<Delimiter>> \o EntryLines(metadata, 1) \o <<Delimiter>> \o body)

WrittenScalars ==
  {BooleanValue(TrueChars), NumberValue(<<"8">>), StringValue(<<"x">>),
   StringValue(TrueChars), StringValue(<<"8">>), StringValue(<<>>)}

WrittenMaps ==
  {MapValue(o) : o \in {t \in ObjectsUpTo({<<"s">>, <<"t">>}, WrittenScalars, MaxEntries) :
                          WellFormedObject(t)}}

RoundTripInit ==
  /\ fmWritten \in {o \in ObjectsUpTo({<<"k">>, <<"j">>}, WrittenScalars \cup WrittenMaps,
                                      MaxEntries) : WellFormedObject(o)}
  /\ \E body \in {<<>>, <<<<"b">>>>} : markdownText = WriteHeader(fmWritten, body)
  /\ parsed = NotParsed
  /\ fmPc = "call"

parseFrontmatterCall ==
  /\ fmPc = "call"
  /\ parsed' = parseFrontmatter(markdownText)
  /\ fmPc' = "done"
  /\ UNCHANGED <<markdownText, fmWritten, notFm>>

(***************************************************************************)
(* scripts/build-manifest.js: main's two loops over the technology and the *)
(* combination directories.  A directory is [name, meta, files]: meta is   *)
(* what reading and parsing its meta.json gives ("object", "null" for the  *)
(* JSON text null, "missing", "invalid"), files tells whether its fragment *)
(* and template files can be read.                                         *)
(***************************************************************************)
MaxDirs == 2

TechnologyNames == {"a", "b", "c"}
CombinationNames == {"a", "b"}
MetaOutcomes == {"object", "null", "missing", "invalid"}

\* The UTF-16 code unit that the default sort compares names by.
CodeUnit(name) == CASE name = "a" -> 97 [] name = "b" -> 98 [] name = "c" -> 99

\* Array.prototype.sort() of a list of distinct one-character names.
RECURSIVE SortNames(_)
SortNames(names) ==
  IF Len(names) = 0 THEN <<>>
  ELSE LET least == CHOOSE i \in 1..Len(names) :
                      \A j \in 1..Len(names) : CodeUnit(names[i]) <= CodeUnit(names[j])
       IN <<names[least]>>
          \o SortNames([k \in 1..(Len(names) - 1) |->
                          IF k < least THEN names[k] ELSE names[k + 1]])

\* listDirs: the directory names, in the order readdir gives them.
listDirs(dirs) == [i \in 1..Len(dirs) |-> dirs[i].name]

DirNamed(dirs, name) == dirs[CHOOSE i \in 1..Len(dirs) : dirs[i].name = name]

\* What a build function returns or does: "entry", "null" (skipped) or "throw".
\* buildTechnology: a meta.json that cannot be read or parsed is caught and
\* gives null; the fragment and template files are read outside the try; the
\* entry is then built from properties of meta.
buildTechnology(dir) ==
  IF dir.meta \in {"missing", "invalid"} THEN "null"
  ELSE IF ~dir.files THEN "throw"
  ELSE IF dir.meta = "null" THEN "throw"
  ELSE "entry"

\* buildCombination: as buildTechnology, without reading any file but meta.json.
buildCombination(dir) ==
  IF dir.meta \in {"missing", "invalid"} THEN "null"
  ELSE IF dir.meta = "null" THEN "throw"
  ELSE "entry"

\* Directory listings of up to n directories with distinct names.
RECURSIVE DirsUpTo(_, _, _)
DirsUpTo(names, fileOutcomes, n) ==
  IF n = 0 THEN {<<>>}
  ELSE LET smaller == DirsUpTo(names, fileOutcomes, n - 1)
       IN smaller \cup
          UNION {{Append(d, [name |-> x, meta |-> m, files |-> f]) :
                    x \in {y \in names : \A i \in 1..Len(d) : d[i].name # y},
                    m \in MetaOutcomes, f \in fileOutcomes} :
                 d \in {e \in smaller : Len(e) = n - 1}}

BmInit ==
  /\ bmTechDirs \in DirsUpTo(TechnologyNames, BOOLEAN, MaxDirs)
  /\ bmComboDirs \in DirsUpTo(CombinationNames, {TRUE}, MaxDirs)
  /\ bmTechnologies = <<>>
  /\ bmCombinations = <<>>
  /\ bmIdx = 1
  /\ bmPc = "technologies"

\* One pass of `for (const id of techIds.sort())`; an exception leaves main
\* and reaches main().catch, which exits with status 1.
mainTechnology ==
  /\ bmPc = "technologies"
  /\ bmIdx <= Len(bmTechDirs)
  /\ LET id == SortNames(listDirs(bmTechDirs))[bmIdx]
         tech == buildTechnology(DirNamed(bmTechDirs, id))
     IN IF tech = "throw"
        THEN bmPc' = "failed" /\ UNCHANGED <<bmTechnologies, bmIdx>>
        ELSE /\ bmTechnologies' = IF tech = "entry" THEN Append(bmTechnologies, id)
                                  ELSE bmTechnologies
             /\ bmIdx' = bmIdx + 1
             /\ bmPc' = bmPc
  /\ UNCHANGED <<bmTechDirs, bmComboDirs, bmCombinations, notBm>>

\* The technology loop is over: main lists the combination directories.
mainListCombinations ==
  /\ bmPc = "technologies"
  /\ bmIdx > Len(bmTechDirs)
  /\ bmPc' = "combinations"
  /\ bmIdx' = 1
  /\ UNCHANGED <<bmTechDirs, bmComboDirs, bmTechnologies, bmCombinations, notBm>>

\* One pass of `for (const id of comboIds.sort())`.
mainCombination ==
  /\ bmPc = "combinations"
  /\ bmIdx <= Len(bmComboDirs)
  /\ LET id == SortNames(listDirs(bmComboDirs))[bmIdx]
         combo == buildCombination(DirNamed(bmComboDirs, id))
     IN IF combo = "throw"
        THEN bmPc' = "failed" /\ UNCHANGED <<bmCombinations, bmIdx>>
        ELSE /\ bmCombinations' = IF combo = "entry" THEN Append(bmCombinations, id)
                                  ELSE bmCombinations
             /\ bmIdx' = bmIdx + 1
             /\ bmPc' = bmPc
  /\ UNCHANGED <<bmTechDirs, bmComboDirs, bmTechnologies, notBm>>

\* writeFile(OUTPUT, JSON.stringify(manifest)).
mainWriteManifest ==
  /\ bmPc = "combinations"
  /\ bmIdx > Len(bmComboDirs)
  /\ bmPc' = "written"
  /\ UNCHANGED <<bmTechDirs, bmComboDirs, bmTechnologies, bmCombinations, bmIdx, notBm>>


(***************************************************************************)
(* The worker's request handlers: the OAuth redirect and callback, the     *)
(* GitHub proxy endpoints and the contribution endpoints.  Each handler    *)
(* is one action: it takes a request, makes its outbound requests and      *)
(* answers.  wkCalls is the list of outbound requests the handler made,    *)
(* in order: the token exchange, or the GitHubClient requests.             *)
(***************************************************************************)
MaxFlows == 2
MaxFiles == 2

\* null, as searchParams.get and headers.get return for a missing name.
Null == [type |-> "null"]

\* !value for null and for strings
IsFalsy(value) == value.type = "null" \/ (value.type = "string" /\ value.chars = <<>>)

\* crypto.randomUUID(): the n-th identifier drawn; no two draws are equal.
randomUUID(n) == StringValue([i \in 1..n |-> "u"])

BearerPrefix == <<"B", "e", "a", "r", "e", "r", " ">>

\* The Authorization headers a request may carry.
AuthHeaders ==
  {Null,
   StringValue(<<>>),
   StringValue(BearerPrefix),
   StringValue(BearerPrefix \o <<"t">>),
   StringValue(<<"B", "a", "s", "i", "c", " ", "t">>),
   StringValue(<<"b", "e", "a", "r", "e", "r", " ", "t">>),
   StringValue(<<"t">>)}

\* extractToken without the test of the scheme.
extractTokenAnyScheme(authHeader) ==
  IF IsFalsy(authHeader) THEN Null
  ELSE StringValue(SubstringFrom(authHeader.chars, Len(BearerPrefix)))

extractToken(authHeader) ==
  IF IsFalsy(authHeader) \/ ~StartsWith(authHeader.chars, BearerPrefix) THEN Null
  ELSE StringValue(SubstringFrom(authHeader.chars, Len(BearerPrefix)))

\* String.prototype.split('/')
RECURSIVE SplitSlashFrom(_, _, _)
SplitSlashFrom(s, i, cur) ==
  IF i > Len(s) THEN <<cur>>
  ELSE IF s[i] = "/" THEN <<cur>> \o SplitSlashFrom(s, i + 1, <<>>)
  ELSE SplitSlashFrom(s, i + 1, Append(cur, s[i]))

\* const [owner, repoName] = repo.split('/'), and the test on the two.
HasOwnerAndName(repo) ==
  LET parts == SplitSlashFrom(repo, 1, <<>>)
  IN Len(parts) >= 2 /\ parts[1] # <<>> /\ parts[2] # <<>>

RepoNames == {<<"o", "/", "n">>, <<"o">>, <<"/", "n">>, <<"o", "/">>}

\* What request.json() gives: a thrown SyntaxError, null, or an object.  Of
\* an object the model keeps the names of its fields that hold a truthy
\* value, the text of `repo` and the number of `files`.
Bodies(fields) ==
  {[json |-> j, truthy |-> {}, repo |-> <<>>, files |-> 0] : j \in {"invalid", "null"}}
  \cup {b \in [json : {"object"}, truthy : SUBSET fields,
               repo : RepoNames \cup {<<>>}, files : 0..MaxFiles] :
          /\ (b.repo # <<>>) = ("repo" \in b.truthy)
          /\ b.files > 0 => "files" \in b.truthy}

\* The statuses of a failed GitHub API response.
GitHubErrors == {401, 500}

\* The requests a handler has made when the failed-th of its planned
\* requests throws (0: none does), and the status it then answers with.
\* A request a handler plans: an operation of GitHubClient (or the token
\* exchange), the position in `files` of the file it is about (0: none), and
\* whether it succeeded.  getFileContent answering 404 returns null and counts
\* as a success.
Request(op) == [op |-> op, file |-> 0, ok |-> TRUE]
FileRequest(op, k) == [op |-> op, file |-> k, ok |-> TRUE]

\* The requests made when a throwing request does not end the handler.
RequestsMadeAll(plan, failed) ==
  [i \in 1..Len(plan) |-> IF i = failed THEN [plan[i] EXCEPT !.ok = FALSE] ELSE plan[i]]

RequestsMade(plan, failed) ==
  IF failed = 0 THEN plan
  ELSE SubSeq(plan, 1, failed - 1) \o <<[plan[failed] EXCEPT !.ok = FALSE]>>
StatusAfter(failed, status) == IF failed = 0 THEN 200 ELSE status

\* for (const file of files): the requests of perFile for each file in turn.
RECURSIVE FileRequestsFrom(_, _, _)
FileRequestsFrom(k, n, perFile) ==
  IF k > n THEN <<>>
  ELSE [i \in 1..Len(perFile) |-> FileRequest(perFile[i], k)]
       \o FileRequestsFrom(k + 1, n, perFile)

FileRequests(n, perFile) == FileRequestsFrom(1, n, perFile)

\* GitHubClient.getDefaultBranchSha
getDefaultBranchSha == <<Request("getRepo"), Request("getRef")>>

\* createContributionPR's requests
createContributionPR ==
  getDefaultBranchSha
  \o <<Request("createBranch"), FileRequest("getFileContent", 1),
       FileRequest("createOrUpdateFile", 1), Request("getRepo"),
       Request("createPullRequest")>>

PRFields == {"repo", "files", "branchName", "commitMessage", "prTitle"}
RepoFields == {"name", "files"}
SubmitFields == {"token", "fragmentId", "editedContent", "rationale", "type"}
AnonymousFields == {"fragmentId", "editedContent", "rationale", "type"}

WkInit ==
  /\ wkStates = {}
  /\ wkHandler = "none"
  /\ wkRequest = [none |-> TRUE]
  /\ wkCalls = <<>>
  /\ wkStatus = 0

Answer(handler, request, made, status) ==
  /\ wkHandler' = handler
  /\ wkRequest' = request
  /\ wkCalls' = made
  /\ wkStatus' = status

\* One outcome of a handler whose validation passed and that plans `plan`.
Proxied(handler, request, plan) ==
  \E failed \in 0..Len(plan), status \in GitHubErrors :
    Answer(handler, request, RequestsMade(plan, failed), StatusAfter(failed, status))

handleAuthRedirect ==
  /\ Cardinality(wkStates) < MaxFlows
  /\ LET state == randomUUID(Cardinality(wkStates) + 1)
     IN /\ wkStates' = wkStates \cup {state}
        /\ Answer("handleAuthRedirect", [state |-> state], <<>>, 302)
  /\ UNCHANGED notWk

handleAuthCallback ==
  /\ \E code \in {Null, StringValue(<<>>), StringValue(<<"c">>)},
        state \in {Null} \cup {randomUUID(n) : n \in 1..MaxFlows},
        tokenData \in {"error", "access_token"} :
       LET request == [code |-> code, state |-> state]
       IN IF IsFalsy(code)
          THEN Answer("handleAuthCallback", request, <<>>, 400)
          ELSE Answer("handleAuthCallback", request, <<Request("access_token")>>,
                      IF tokenData = "error" THEN 400 ELSE 200)
  /\ UNCHANGED <<wkStates, notWk>>

handleListRepos ==
  /\ \E authHeader \in AuthHeaders :
       LET request == [authorization |-> authHeader]
           token == extractToken(authHeader)
       IN IF IsFalsy(token)
          THEN Answer("handleListRepos", request, <<>>, 401)
          ELSE Proxied("handleListRepos", request, <<Request("listRepos")>>)
  /\ UNCHANGED <<wkStates, notWk>>

handleCreatePR ==
  /\ \E authHeader \in AuthHeaders, body \in Bodies(PRFields) :
       LET request == [authorization |-> authHeader, body |-> body]
           token == extractToken(authHeader)
       IN IF IsFalsy(token)
          THEN Answer("handleCreatePR", request, <<>>, 401)
          ELSE IF body.json # "object"
          THEN Answer("handleCreatePR", request, <<>>, 500)
          ELSE IF \E f \in PRFields : f \notin body.truthy
          THEN Answer("handleCreatePR", request, <<>>, 400)
          ELSE IF ~HasOwnerAndName(body.repo)
          THEN Answer("handleCreatePR", request, <<>>, 400)
          ELSE Proxied("handleCreatePR", request,
                       getDefaultBranchSha \o <<Request("getRepo"), Request("createBranch")>>
                       \o FileRequests(body.files, <<"getFileContent", "createOrUpdateFile">>)
                       \o <<Request("createPullRequest")>>)
  /\ UNCHANGED <<wkStates, notWk>>

handleCreateRepo ==
  /\ \E authHeader \in AuthHeaders, body \in Bodies(RepoFields) :
       LET request == [authorization |-> authHeader, body |-> body]
           token == extractToken(authHeader)
       IN IF IsFalsy(token)
          THEN Answer("handleCreateRepo", request, <<>>, 401)
          ELSE IF body.json # "object"
          THEN Answer("handleCreateRepo", request, <<>>, 500)
          ELSE IF \E f \in RepoFields : f \notin body.truthy
          THEN Answer("handleCreateRepo", request, <<>>, 400)
          ELSE Proxied("handleCreateRepo", request,
                       <<Request("createRepository")>>
                       \o FileRequests(body.files, <<"createOrUpdateFile">>))
  /\ UNCHANGED <<wkStates, notWk>>

handleSubmit ==
  /\ \E body \in Bodies(SubmitFields) :
       LET request == [body |-> body]
       IN IF body.json # "object"
          THEN Answer("handleSubmit", request, <<>>, 500)
          ELSE IF \E f \in SubmitFields : f \notin body.truthy
          THEN Answer("handleSubmit", request, <<>>, 400)
          ELSE Proxied("handleSubmit", request, createContributionPR)
  /\ UNCHANGED <<wkStates, notWk>>

handleAnonymous ==
  /\ \E body \in Bodies(AnonymousFields) :
       LET request == [body |-> body]
       IN IF body.json # "object"
          THEN Answer("handleAnonymous", request, <<>>, 500)
          ELSE IF \E f \in AnonymousFields : f \notin body.truthy
          THEN Answer("handleAnonymous", request, <<>>, 400)
          ELSE Proxied("handleAnonymous", request, createContributionPR)
  /\ UNCHANGED <<wkStates, notWk>>


(***************************************************************************)
(* The technology catalog once its cards are rendered: the cards'          *)
(* `selected` and `disabled` attributes, the store's selectedTechIds and   *)
(* the toast a click raises.  A click is one action: TechCard._handleClick,*)
(* the tech-card-toggle event it dispatches, TechCatalog._handleCardToggle *)
(* and the store's notification of TechCatalog._updateSelectionUI.         *)
(***************************************************************************)
MaxTechs == 3

CatalogTechIds == {<<"a", "b", "c", "d">>[i] : i \in 1..MaxTechs}

\* The manifests: each technology's incompatibleWith list, as a set of ids.
CatalogManifests ==
  {m \in [CatalogTechIds -> SUBSET CatalogTechIds] : \A t \in CatalogTechIds : t \notin m[t]}

\* TechCatalog._checkIncompatibilities: TRUE when a message is returned.
catalogCheckIncompatibilities(manifest, techId, currentSelected) ==
  \E incompatId \in manifest[techId] : Includes(currentSelected, incompatId)

\* The ids TechCatalog._updateIncompatibleStates disables: none.
incompatibleIdsNone(manifest, selectedIds) == {}

\* The ids TechCatalog._updateIncompatibleStates collects in incompatibleIds.
incompatibleIds(manifest, selectedIds) ==
  {incompId \in CatalogTechIds :
     /\ \E k \in 1..Len(selectedIds) : incompId \in manifest[selectedIds[k]]
     /\ ~Includes(selectedIds, incompId)}

\* TechCatalog._updateSelectionUI: every card's attributes after the store
\* has notified the catalog of selectedIds.
updateSelectionUI(manifest, selectedIds) ==
  [t \in CatalogTechIds |->
     [selected |-> Includes(selectedIds, t),
      disabled |-> t \in incompatibleIds(manifest, selectedIds)]]

CtInit ==
  /\ ctManifest \in CatalogManifests
  /\ ctSelected = <<>>
  /\ ctCards = [t \in CatalogTechIds |-> [selected |-> FALSE, disabled |-> FALSE]]
  /\ ctClick = [techId |-> "", toggled |-> FALSE, selected |-> FALSE]
  /\ ctToast = "none"

\* A click on the card of techId (a key press of Enter or Space does the same).
cardClick ==
  \E techId \in CatalogTechIds :
    /\ IF ctCards[techId].disabled
       THEN /\ ctClick' = [techId |-> techId, toggled |-> FALSE, selected |-> FALSE]
            /\ ctToast' = "none"
            /\ UNCHANGED <<ctSelected, ctCards>>
       ELSE LET selected == ~ctCards[techId].selected
                currentSelected == ctSelected
            IN /\ ctClick' = [techId |-> techId, toggled |-> TRUE, selected |-> selected]
               /\ IF selected /\ ~Includes(currentSelected, techId)
                     /\ catalogCheckIncompatibilities(ctManifest, techId, currentSelected)
                  THEN /\ ctToast' = "warning"
                       /\ ctCards' = [ctCards EXCEPT ![techId].selected = FALSE]
                       /\ UNCHANGED ctSelected
                  ELSE LET updated == IF selected
                                      THEN IF Includes(currentSelected, techId)
                                           THEN currentSelected
                                           ELSE Append(currentSelected, techId)
                                      ELSE RemoveId(currentSelected, techId)
                       IN /\ ctSelected' = updated
                          /\ ctCards' = updateSelectionUI(ctManifest, updated)
                          /\ ctToast' = "none"
    /\ UNCHANGED <<ctManifest, notCt>>


(***************************************************************************)
(* The reactive store (js/store.js): _state, the _listeners map of key to  *)
(* Set of callbacks, and the unsubscribe functions subscribe has returned. *)
(* A Set keeps insertion order and holds a callback once; it is a sequence *)
(* without repetition.  A callback records its invocation and returns.     *)
(***************************************************************************)
MaxCallbacks == 2
MaxValues == 2

StoreKeys == {"selectedTechIds", "options"}
Callbacks == 1..MaxCallbacks
StoreValues == 1..MaxValues

\* Set.prototype.add, with every call appending.
SetAddAgain(set, callback) == Append(set, callback)

\* Set.prototype.add
SetAdd(set, callback) == IF Includes(set, callback) THEN set ELSE Append(set, callback)

\* Set.prototype.delete
SetDelete(set, callback) == SelectSeq(set, LAMBDA cb : cb # callback)

\* Store._notify: the invocations cb(this._state[key]) it makes, in order.
notify(listeners, state, key) ==
  IF key \notin DOMAIN listeners THEN <<>>
  ELSE [i \in 1..Len(listeners[key]) |->
          [callback |-> listeners[key][i], key |-> key, value |-> state[key]]]

StInit ==
  /\ stState = [key \in StoreKeys |-> 0]
  /\ stListeners = [key \in {} |-> <<>>]
  /\ stUnsubscribers = {}
  /\ stSubscribed = {}
  /\ stInvoked = <<>>
  /\ stLast = [op |-> "new"]

\* Store.set(key, value)
storeSet ==
  \E key \in StoreKeys, value \in StoreValues :
    LET state == [stState EXCEPT ![key] = value]
    IN /\ stState' = state
       /\ stInvoked' = notify(stListeners, state, key)
       /\ stLast' = [op |-> "set", key |-> key, value |-> value]
       /\ UNCHANGED <<stListeners, stUnsubscribers, stSubscribed, notSt>>

\* Store.subscribe(key, callback); the function it returns joins the
\* unsubscribe functions the program holds.
storeSubscribe ==
  \E key \in StoreKeys, callback \in Callbacks :
    LET listeners == IF key \in DOMAIN stListeners THEN stListeners
                     ELSE (key :> <<>>) @@ stListeners
    IN /\ stListeners' = [listeners EXCEPT ![key] = SetAdd(@, callback)]
       /\ stUnsubscribers' = stUnsubscribers \cup {[key |-> key, callback |-> callback]}
       /\ stSubscribed' = stSubscribed \cup {[key |-> key, callback |-> callback]}
       /\ stInvoked' = <<>>
       /\ stLast' = [op |-> "subscribe", key |-> key, callback |-> callback]
       /\ UNCHANGED <<stState, notSt>>

\* A call of a function that subscribe returned.
storeUnsubscribe ==
  \E unsub \in stUnsubscribers :
    /\ stListeners' = [stListeners EXCEPT ![unsub.key] = SetDelete(@, unsub.callback)]
    /\ stSubscribed' = stSubscribed \ {unsub}
    /\ stInvoked' = <<>>
    /\ stLast' = [op |-> "unsubscribe", key |-> unsub.key, callback |-> unsub.callback]
    /\ UNCHANGED <<stState, stUnsubscribers, notSt>>


(***************************************************************************)
(* The option panel on its own: the store's technologies, selectedTechIds  *)
(* and options.  A change of selectedTechIds runs OptionPanel._render; a   *)
(* change of a control runs _handleOptionChange.                           *)
(***************************************************************************)
MaxPanelOptions == 2

\* The definitions an option with this id may have in the manifest.
PanelOptionDefs(id) ==
  {[id |-> id, type |-> "single-select", choices |-> c, default |-> Undefined] :
     c \in {<<>>, <<Choice("x", FALSE), Choice("y", FALSE)>>,
            <<Choice("x", FALSE), Choice("y", TRUE)>>}}
  \cup {[id |-> id, type |-> "toggle", choices |-> <<>>, default |-> d] :
          d \in {Undefined, Bool("true"), Bool("false")}}
  \cup {[id |-> id, type |-> "freeform", choices |-> <<>>, default |-> d] :
          d \in {Undefined, Str(""), Str("d")}}

PanelOptionId(k) == <<"o1", "o2", "o3", "o4">>[k]

RECURSIVE PanelOptionLists(_)
PanelOptionLists(n) ==
  IF n = 0 THEN {<<>>}
  ELSE LET shorter == PanelOptionLists(n - 1)
       IN shorter \cup {Append(os, o) : os \in {l \in shorter : Len(l) = n - 1},
                                        o \in PanelOptionDefs(PanelOptionId(n))}

PanelTechIds == {"A", "B"}

\* The values a control of the option can report.
ControlValues(option) ==
  CASE option.type = "single-select" ->
         {Str(option.choices[c].id) : c \in 1..Len(option.choices)}
    [] option.type = "toggle" -> {Bool("true"), Bool("false")}
    [] OTHER -> {Str(""), Str("t")}

OpInit ==
  /\ \E os \in PanelOptionLists(MaxPanelOptions) :
       opTechnologies =
         <<[id |-> "A", options |-> os],
           [id |-> "B", options |-> <<[id |-> "o1", type |-> "freeform",
                                       choices |-> <<>>, default |-> Str("d")]>>]>>
  /\ opSelected = <<>>
  /\ opOptions = EmptyMap
  /\ opLast = [op |-> "new"]

\* A change of selectedTechIds, then OptionPanel._render up to store.set.
panelRender ==
  \E techId \in PanelTechIds :
    LET selected == ~Includes(opSelected, techId)
        selectedIds == IF selected THEN Append(opSelected, techId)
                       ELSE RemoveId(opSelected, techId)
    IN /\ opSelected' = selectedIds
       /\ opOptions' = IF Len(selectedIds) = 0 THEN opOptions
                       ELSE InitSelectedOptions(opOptions, opTechnologies, selectedIds, 1)
       /\ opLast' = [op |-> "render", techId |-> techId, selected |-> selected]
       /\ UNCHANGED <<opTechnologies, notOp>>

\* OptionPanel._handleOptionChange, from a control of a selected technology.
panelOptionChange ==
  \E tech \in 1..Len(opTechnologies) :
    \E o \in 1..Len(opTechnologies[tech].options) :
      \E value \in ControlValues(opTechnologies[tech].options[o]) :
        LET techId == opTechnologies[tech].id
            optionId == opTechnologies[tech].options[o].id
        IN /\ Includes(opSelected, techId)
           /\ opOptions' = (techId :> ((optionId :> value) @@ TechOptionsOf(opOptions, techId)))
                             @@ opOptions
           /\ opLast' = [op |-> "change", techId |-> techId, optionId |-> optionId]
           /\ UNCHANGED <<opTechnologies, opSelected, notOp>>


(***************************************************************************)
(* One fragment block of the file preview: the fragment's loaded content,  *)
(* its entry in the store's localEdits, the block's edit area and          *)
(* textarea, and the content the last render or suggestion used.           *)
(***************************************************************************)
EditTexts == {Str(""), Str("a"), Str("b")}

\* value || fallback
OrElse(value, fallback) == IF value \in {Undefined, Str("")} THEN fallback ELSE value

\* _renderFragments: the content shown for the fragment.
RenderedContent(localEdit, content) == IF localEdit # Undefined THEN localEdit ELSE content

EdInit ==
  /\ edContent \in EditTexts
  /\ edLocalEdit = Undefined
  /\ edEditing = FALSE
  /\ edTextarea = Str("")
  /\ edSaved = Undefined
  /\ edUsed = Undefined
  /\ edLast = "new"

\* FilePreview._renderFragments, for this fragment.
renderFragments ==
  /\ edUsed' = RenderedContent(edLocalEdit, edContent)
  /\ edEditing' = FALSE
  /\ edLast' = "render"
  /\ UNCHANGED <<edContent, edLocalEdit, edTextarea, edSaved, notEd>>

\* FilePreview._handleEditClick, and the user's typing that follows it.
handleEditClick ==
  \E typed \in EditTexts :
    /\ ~edEditing
    /\ edEditing' = TRUE
    /\ edTextarea' = typed
    /\ edLast' = "edit"
    /\ UNCHANGED <<edContent, edLocalEdit, edSaved, edUsed, notEd>>

\* FilePreview._handleSaveClick
handleSaveClick ==
  /\ edEditing
  /\ LET newContent == edTextarea
     IN /\ edLocalEdit' = IF newContent # edContent THEN newContent ELSE Undefined
        /\ edSaved' = newContent
  /\ edEditing' = FALSE
  /\ edLast' = "save"
  /\ UNCHANGED <<edContent, edTextarea, edUsed, notEd>>

\* FilePreview._handleCancelClick
handleCancelClick ==
  /\ edEditing
  /\ edEditing' = FALSE
  /\ edLast' = "cancel"
  /\ UNCHANGED <<edContent, edLocalEdit, edTextarea, edSaved, edUsed, notEd>>

\* FilePreview._handleSuggestClick: edUsed is the editedContent it emits.
handleSuggestClick ==
  /\ LET editedContent == IF edEditing THEN edTextarea ELSE edLocalEdit
     IN edUsed' = OrElse(editedContent, edContent)
  /\ edLast' = "suggest"
  /\ UNCHANGED <<edContent, edLocalEdit, edEditing, edTextarea, edSaved, notEd>>

(***************************************************************************)
(* The GitHub OAuth client (github-auth.js): startAuth registers a         *)
(* `message` listener on the window; the callback page posts the token.    *)
(***************************************************************************)
MaxAuthStarts == 3
MaxMessages == 2

\* window.location.origin and some other origin.
Origins == {"app", "elsewhere"}

\* event.data of a posted message: nothing, an OAuth message with a token or
\* with an empty one, or a message of another type.
MessageData ==
  {Null} \cup [type : {"github-oauth", "other"}, token : {"", "t1", "t2"}]

\* githubToken while signed out (null): as falsy as the empty string.
NoToken == ""

\* The two conditions of onMessage under which it acts.
IsTokenMessage(event) ==
  /\ event.origin = "app"
  /\ event.data # Null /\ event.data.type = "github-oauth" /\ event.data.token # ""

\* onMessage(event) of the listener registered by the n-th startAuth, on the
\* state au = [listeners, token, emitted, sets].
onMessage(au, n, event) ==
  IF ~IsTokenMessage(event) THEN au
  ELSE [au EXCEPT !.listeners = SelectSeq(@, LAMBDA l : l # n),
                  !.token = event.data.token,
                  !.sets = @ + 1,
                  !.emitted = Append(@, event.data.token)]

\* The window dispatches the event to the listeners registered when the
\* dispatch began, in registration order.
RECURSIVE dispatchMessage(_, _, _, _)
dispatchMessage(au, registered, k, event) ==
  IF k > Len(registered) THEN au
  ELSE dispatchMessage(onMessage(au, registered[k], event), registered, k + 1, event)

AuInit ==
  /\ auListeners = <<>>
  /\ auStarts = 0
  /\ auToken = NoToken
  /\ auEmitted = <<>>
  /\ auMessages = 0
  /\ auLast = [op |-> "new"]

\* startAuth(): a click on the auth button, or a submit while signed out.
startAuth ==
  /\ auStarts < MaxAuthStarts
  /\ auStarts' = auStarts + 1
  /\ auListeners' = Append(auListeners, auStarts + 1)
  /\ auEmitted' = <<>>
  /\ auLast' = [op |-> "startAuth"]
  /\ UNCHANGED <<auToken, auMessages, notAu>>

\* A `message` event reaches the window.
windowMessage ==
  \E origin \in Origins, data \in MessageData :
    LET event == [origin |-> origin, data |-> data]
        au    == dispatchMessage([listeners |-> auListeners, token |-> auToken,
                                  emitted |-> <<>>, sets |-> 0],
                                 auListeners, 1, event)
    IN /\ auMessages < MaxMessages
       /\ auMessages' = auMessages + 1
       /\ auListeners' = au.listeners
       /\ auToken' = au.token
       /\ auEmitted' = au.emitted
       /\ auLast' = [op |-> "message", event |-> event, listeners |-> Len(auListeners),
                     sets |-> au.sets, before |-> auToken]
       /\ UNCHANGED <<auStarts, notAu>>

\* logout()
authLogout ==
  /\ auToken # NoToken
  /\ auToken' = NoToken
  /\ auEmitted' = <<>>
  /\ auLast' = [op |-> "logout"]
  /\ UNCHANGED <<auListeners, auStarts, auMessages, notAu>>

(***************************************************************************)
(* The prompt repository of the loader (prompt-loader.js): repoOwner,      *)
(* repoName, and the module's memoized manifest.  A manifest is            *)
(* represented by the base URL it was fetched from.                        *)
(***************************************************************************)
MaxRepoCalls == 2
MaxRepoSets == 2

RepoOwners == {"GarrettPeake", "fork"}
RepoNamesOf == {"AgentsDotMD-prompts", "prompts"}
LoaderFunctions == {"loadFragments", "loadCombinationFragments", "loadTemplates"}

\* No manifest memoized yet (cachedManifest = null).
NoManifest == [owner |-> "", repo |-> ""]

\* getBaseUrl(): the raw-content URL of the configured repository, kept as
\* the pair it is built from.
getBaseUrl(owner, repo) == [owner |-> owner, repo |-> repo]

RpInit ==
  /\ rpOwner = "GarrettPeake"
  /\ rpName = "AgentsDotMD-prompts"
  /\ rpCached = NoManifest
  /\ rpCalls = <<>>
  /\ rpSets = 0

\* setPromptRepoUrl(owner, repo)
setPromptRepoUrl ==
  \E owner \in RepoOwners, repo \in RepoNamesOf :
    /\ rpSets < MaxRepoSets
    /\ rpSets' = rpSets + 1
    /\ rpOwner' = owner
    /\ rpName' = repo
    /\ UNCHANGED <<rpCached, rpCalls, notRp>>

\* A loader function is invoked.  `await getManifest()`: with a memoized
\* manifest the function goes on with it and builds its URLs with
\* getBaseUrl(); without one, loadManifest() fetches
\* `${getBaseUrl()}/prompts/manifest.json` and the call waits.
loaderCall ==
  \E fn \in LoaderFunctions :
    LET base == getBaseUrl(rpOwner, rpName)
        call == [fn |-> fn, sets |-> rpSets, fetched |-> base]
    IN /\ Len(rpCalls) < MaxRepoCalls
       /\ rpCalls' = Append(rpCalls,
            IF rpCached # NoManifest
            THEN call @@ [st |-> "done", manifest |-> rpCached, urls |-> base]
            ELSE call @@ [st |-> "manifest", manifest |-> NoManifest, urls |-> NoManifest])
       /\ UNCHANGED <<rpOwner, rpName, rpCached, rpSets, notRp>>

\* The manifest fetch of call k settles: a rejected or non-OK fetch throws out
\* of the loader function; otherwise getManifest memoizes the manifest and the
\* function builds its URLs with getBaseUrl() as it is now.
repoManifestSettles ==
  \E k \in 1..Len(rpCalls), ok \in BOOLEAN :
    /\ rpCalls[k].st = "manifest"
    /\ IF ok
       THEN /\ rpCached' = rpCalls[k].fetched
            /\ rpCalls' = [rpCalls EXCEPT ![k].st = "done",
                                          ![k].manifest = rpCalls[k].fetched,
                                          ![k].urls = getBaseUrl(rpOwner, rpName)]
       ELSE /\ rpCached' = rpCached
            /\ rpCalls' = [rpCalls EXCEPT ![k].st = "rejected"]
    /\ UNCHANGED <<rpOwner, rpName, rpSets, notRp>>

(***************************************************************************)
(* scripts/build-manifest.js: the build's own parseFrontmatter and         *)
(* parseScalar, next to the loader's, both applied to one text.            *)
(***************************************************************************)
\* parseScalar leaving the quotes of a quoted value in place.
parseScalarKeepsQuotes(raw) ==
  IF raw = TrueChars THEN BooleanValue(TrueChars)
  ELSE IF raw = FalseChars THEN BooleanValue(FalseChars)
  ELSE IF AllDigits(raw) THEN ParseInt(raw)
  ELSE IF IsDecimal(raw) THEN ParseFloat(raw)
  ELSE StringValue(raw)

parseScalar(raw) ==
  IF raw = TrueChars THEN BooleanValue(TrueChars)
  ELSE IF raw = FalseChars THEN BooleanValue(FalseChars)
  ELSE IF AllDigits(raw) THEN ParseInt(raw)
  ELSE IF IsDecimal(raw) THEN ParseFloat(raw)
  ELSE IF \/ StartsWith(raw, <<"\"">>) /\ EndsWith(raw, <<"\"">>)
          \/ StartsWith(raw, <<"'">>) /\ EndsWith(raw, <<"'">>)
  THEN StringValue(SubSeq(raw, 2, Len(raw) - 1))
  ELSE StringValue(raw)

\* One pass of `for (const line of block.split('\n'))`.
BuildParseLine(st, line) ==
  LET trimmedLine == Trim(line)
      indented == IndentedMatch(line)
      top == TopMatch(trimmedLine)
  IN IF trimmedLine = <<>> THEN st
     ELSE IF indented.ok /\ st.keySet /\ st.mapOpen
     THEN LET currentMap == ObjSet(st.currentMap, indented.key, parseScalar(indented.value))
          IN [st EXCEPT !.currentMap = currentMap,
                        !.metadata = ObjSet(@, st.currentKey, MapValue(currentMap))]
     ELSE IF ~top.ok THEN st
     ELSE IF top.value = <<>>
     THEN [st EXCEPT !.keySet = TRUE, !.currentKey = top.key,
                     !.mapOpen = TRUE, !.currentMap = EmptyObject]
     ELSE [st EXCEPT !.keySet = TRUE, !.currentKey = top.key,
                     !.mapOpen = FALSE, !.currentMap = EmptyObject,
                     !.metadata = ObjSet(@, top.key, parseScalar(top.value))]

RECURSIVE BuildParseLines(_, _, _)
BuildParseLines(st, lines, n) ==
  IF n > Len(lines) THEN st ELSE BuildParseLines(BuildParseLine(st, lines[n]), lines, n + 1)

\* parseFrontmatter(text) of build-manifest.js.
buildParseFrontmatter(text) ==
  LET trimmed == Trim(text)
      end == IndexOfString(trimmed, Delimiter, 3)
  IN IF ~StartsWith(trimmed, Delimiter) THEN [metadata |-> EmptyObject, content |-> trimmed]
     ELSE IF end = -1 THEN [metadata |-> EmptyObject, content |-> trimmed]
     ELSE LET block == Trim(Substring(trimmed, 3, end))
          IN [metadata |-> BuildParseLines(LoopStart, Split(block), 1).metadata,
              content |-> Trim(SubstringFrom(trimmed, end + 3))]

\* The lines the texts given to the two parsers are drawn from.
ParserLines ==
  {Delimiter,
   <<"k", ":", " ", "0", "1", ".", "5", "0">>,
   <<"k", ":", " ", "'", "x", "'">>,
   <<"j", ":">>,
   <<" ", "s", ":", " ", "\"", "t", "r", "u", "e", "\"">>,
   <<"\t", "t", ":", "f", "a", "l", "s", "e">>,
   <<"-", "-", "-", "b">>,
   <<" ", "b", " ">>}

NotParsedYet == [pending |-> TRUE]

PsInit ==
  /\ psText \in {Join(ls) : ls \in SeqsUpTo(ParserLines, MaxLines)}
  /\ psRuntime = NotParsedYet
  /\ psBuild = NotParsedYet

\* The loader parses the text of a fragment file (prompt-loader.js).
runtimeParse ==
  /\ psRuntime = NotParsedYet
  /\ psRuntime' = parseFrontmatter(psText)
  /\ UNCHANGED <<psText, psBuild, notPs>>

\* The build parses the same file (build-manifest.js).
buildParse ==
  /\ psBuild = NotParsedYet
  /\ psBuild' = buildParseFrontmatter(psText)
  /\ UNCHANGED <<psText, psRuntime, notPs>>

(***************************************************************************)
(* EventBus (event-bus.js): _handlers maps an event to the Set of its      *)
(* handlers.  A handler is known by the number of the on/once call that    *)
(* registered it; a Set iterates in insertion order, which is the order of *)
(* these numbers.                                                          *)
(***************************************************************************)
MaxRegistrations == 3
MaxEmits == 2
MaxEmitDepth == 2

BusEvents == {"e1", "e2"}

\* this._handlers.get(event), empty when the Map has no such key.
HandlersOf(handlers, event) ==
  IF event \in DOMAIN handlers THEN handlers[event] ELSE {}

\* off(event, callback)
busOff(bus, event, id) ==
  IF event \in DOMAIN bus.handlers
  THEN [bus EXCEPT !.handlers[event] = @ \ {id}]
  ELSE bus

\* The wrapper of once calling its callback before it removes itself.
RECURSIVE busEmit(_, _, _, _)
onceWrapperRemovesLate(bus, id, depth) ==
  LET reg == bus.regs[id]
      called == [bus EXCEPT !.invoked[id] = @ + 1]
      after == IF reg.emits /\ depth < MaxEmitDepth
               THEN busEmit(called, reg.event, 0, depth + 1)
               ELSE called
  IN busOff(after, reg.event, id)

\* wrapper(data) of once: off(event, wrapper), then callback(data).  The
\* callback may emit the event again from inside.
onceWrapper(bus, id, depth) ==
  LET reg == bus.regs[id]
      removed == busOff(bus, reg.event, id)
      called == [removed EXCEPT !.invoked[id] = @ + 1]
  IN IF reg.emits /\ depth < MaxEmitDepth
     THEN busEmit(called, reg.event, 0, depth + 1)
     ELSE called

\* cb(data) for handler id.
busInvoke(bus, id, depth) ==
  IF bus.regs[id].kind = "once" THEN onceWrapper(bus, id, depth)
  ELSE [bus EXCEPT !.invoked[id] = @ + 1]

\* emit(event, data): handlers.forEach(cb => cb(data)), from the first
\* handler after `last` that is in the Set when the iteration reaches it.
busEmit(bus, event, last, depth) ==
  LET rest == {id \in HandlersOf(bus.handlers, event) : id > last}
  IN IF rest = {} THEN bus
     ELSE LET id == CHOOSE i \in rest : \A j \in rest : i <= j
          IN busEmit(busInvoke(bus, id, depth), event, id, depth)

Bus == [handlers |-> ebHandlers, regs |-> ebRegs, invoked |-> ebInvoked]

EbInit ==
  /\ ebHandlers = [event \in {} |-> {}]
  /\ ebRegs = <<>>
  /\ ebInvoked = <<>>
  /\ ebCancelled = {}
  /\ ebEmits = 0

\* on(event, callback) with the handler numbered id.
busOn(handlers, event, id) ==
  IF event \in DOMAIN handlers
  THEN [handlers EXCEPT ![event] = @ \cup {id}]
  ELSE [e \in DOMAIN handlers \cup {event} |->
          IF e = event THEN {id} ELSE handlers[e]]

\* eventBus.on(event, callback) or eventBus.once(event, callback); the
\* callback may be one that emits the event again.
eventBusRegister ==
  \E event \in BusEvents, kind \in {"on", "once"}, emits \in BOOLEAN :
    LET id == Len(ebRegs) + 1
    IN /\ Len(ebRegs) < MaxRegistrations
       /\ kind = "on" => ~emits
       /\ ebRegs' = Append(ebRegs, [event |-> event, kind |-> kind, emits |-> emits])
       /\ ebHandlers' = busOn(ebHandlers, event, id)
       /\ ebInvoked' = Append(ebInvoked, 0)
       /\ UNCHANGED <<ebCancelled, ebEmits, notEb>>

\* The function returned by on/once is called: off(event, handler).
eventBusUnsubscribe ==
  \E id \in 1..Len(ebRegs) :
    /\ ebHandlers' = busOff(Bus, ebRegs[id].event, id).handlers
    /\ ebCancelled' = IF ebInvoked[id] = 0 THEN ebCancelled \cup {id} ELSE ebCancelled
    /\ UNCHANGED <<ebRegs, ebInvoked, ebEmits, notEb>>

\* eventBus.emit(event, data) from outside any handler.
eventBusEmit ==
  \E event \in BusEvents :
    LET bus == busEmit(Bus, event, 0, 1)
    IN /\ ebEmits < MaxEmits
       /\ ebEmits' = ebEmits + 1
       /\ ebHandlers' = bus.handlers
       /\ ebInvoked' = bus.invoked
       /\ UNCHANGED <<ebRegs, ebCancelled, notEb>>

(***************************************************************************)
(* The specifications.  Each part that a specification does not exercise   *)
(* stays in its idle state.                                                *)
(***************************************************************************)
DiffIdle ==
  /\ original = <<>> /\ modified = <<>> /\ contextLines = 0
  /\ originalLines = <<>> /\ modifiedLines = <<>> /\ lcs = <<>> /\ result = <<>>
  /\ origIdx = 0 /\ modIdx = 0 /\ lcsIdx = 0 /\ unified = <<>> /\ diffPc = "idle"

LoadIdle == LoadInit

FilterIdle ==
  /\ filterFragments = <<>> /\ filterOptions = EmptyMap
  /\ filterResult = <<>> /\ filterPc = "idle"

ComboIdle == comboCatalog = <<>> /\ comboIds = <<>> /\ comboLoaded = <<>>

FlattenIdle == flattenOptionsArg = <<>> /\ flat = <<>> /\ flattenPc = "idle"

FmIdle ==
  /\ markdownText = <<>> /\ fmWritten = <<>>
  /\ parsed = <<>> /\ fmPc = "idle"

TplIdle ==
  /\ tplFn = "" /\ templateContent = <<>> /\ variables = <<>>
  /\ tplOut = <<>> /\ tplPc = "idle"

BmIdle ==
  /\ bmTechDirs = <<>> /\ bmComboDirs = <<>> /\ bmTechnologies = <<>>
  /\ bmCombinations = <<>> /\ bmIdx = 0 /\ bmPc = "idle"

WkIdle ==
  /\ wkStates = {} /\ wkHandler = "idle" /\ wkRequest = [none |-> TRUE]
  /\ wkCalls = <<>> /\ wkStatus = 0

CtIdle ==
  /\ ctManifest = <<>> /\ ctSelected = <<>> /\ ctCards = <<>>
  /\ ctClick = <<>> /\ ctToast = "idle"

StIdle ==
  /\ stState = <<>> /\ stListeners = <<>> /\ stUnsubscribers = {}
  /\ stSubscribed = {} /\ stInvoked = <<>> /\ stLast = [op |-> "idle"]

OpIdle ==
  /\ opTechnologies = <<>> /\ opSelected = <<>> /\ opOptions = EmptyMap
  /\ opLast = [op |-> "idle"]

EdIdle ==
  /\ edContent = Undefined /\ edLocalEdit = Undefined /\ edEditing = FALSE
  /\ edTextarea = Undefined /\ edSaved = Undefined /\ edUsed = Undefined
  /\ edLast = "idle"

AuIdle ==
  /\ auListeners = <<>> /\ auStarts = 0 /\ auToken = NoToken
  /\ auEmitted = <<>> /\ auMessages = 0 /\ auLast = [op |-> "idle"]

RpIdle ==
  /\ rpOwner = "" /\ rpName = "" /\ rpCached = <<>> /\ rpCalls = <<>> /\ rpSets = 0

PsIdle ==
  /\ psText = <<>> /\ psRuntime = <<>> /\ psBuild = <<>>

EbIdle ==
  /\ ebHandlers = <<>> /\ ebRegs = <<>> /\ ebInvoked = <<>>
  /\ ebCancelled = {} /\ ebEmits = 0

\* Every part but `part` in its idle state.
IdleBut(part) ==
  /\ IF part = "diff" THEN TRUE ELSE DiffIdle
  /\ IF part = "load" THEN TRUE ELSE LoadIdle
  /\ IF part = "filter" THEN TRUE ELSE FilterIdle
  /\ IF part = "combo" THEN TRUE ELSE ComboIdle
  /\ IF part = "flatten" THEN TRUE ELSE FlattenIdle
  /\ IF part = "tpl" THEN TRUE ELSE TplIdle
  /\ IF part = "fm" THEN TRUE ELSE FmIdle
  /\ IF part = "bm" THEN TRUE ELSE BmIdle
  /\ IF part = "wk" THEN TRUE ELSE WkIdle
  /\ IF part = "ct" THEN TRUE ELSE CtIdle
  /\ IF part = "st" THEN TRUE ELSE StIdle
  /\ IF part = "op" THEN TRUE ELSE OpIdle
  /\ IF part = "ed" THEN TRUE ELSE EdIdle
  /\ IF part = "au" THEN TRUE ELSE AuIdle
  /\ IF part = "rp" THEN TRUE ELSE RpIdle
  /\ IF part = "ps" THEN TRUE ELSE PsIdle
  /\ IF part = "eb" THEN TRUE ELSE EbIdle

DiffNext ==
  \/ computeDiffEnter
  \/ computeDiffContext
  \/ computeDiffRemoved
  \/ computeDiffAdded
  \/ computeDiffReturn
  \/ formatUnifiedDiff

LoadNext ==
  \/ loadTechnologies
  \/ manifestFetchDone
  \/ fileFetchDone
  \/ handleCardToggle
  \/ handleOptionChange

FilterNext == filterFragmentsCall

ComboNext == comboToggle

FlattenNext == flattenOptionsCall

TplNext == interpolateCall \/ extractVariablesCall

FmNext == parseFrontmatterCall

BmNext ==
  \/ mainTechnology
  \/ mainListCombinations
  \/ mainCombination
  \/ mainWriteManifest

WkNext ==
  \/ handleAuthRedirect
  \/ handleAuthCallback
  \/ handleListRepos
  \/ handleCreatePR
  \/ handleCreateRepo
  \/ handleSubmit
  \/ handleAnonymous

CtNext ==
  cardClick

StNext ==
  \/ storeSet
  \/ storeSubscribe
  \/ storeUnsubscribe

OpNext ==
  \/ panelRender
  \/ panelOptionChange

EdNext ==
  \/ renderFragments
  \/ handleEditClick
  \/ handleSaveClick
  \/ handleCancelClick
  \/ handleSuggestClick

AuNext ==
  \/ startAuth
  \/ windowMessage
  \/ authLogout

RpNext ==
  \/ setPromptRepoUrl
  \/ loaderCall
  \/ repoManifestSettles

PsNext ==
  \/ runtimeParse
  \/ buildParse

EbNext ==
  \/ eventBusRegister
  \/ eventBusUnsubscribe
  \/ eventBusEmit

InitDiff == DiffInit /\ IdleBut("diff")
InitLoad == LoadInit /\ IdleBut("load")
InitFilter == FilterInit /\ IdleBut("filter")
InitCombo == ComboInit /\ IdleBut("combo")
InitFlatten == FlattenInit /\ IdleBut("flatten")
InitInterpolate == TplInit /\ IdleBut("tpl")
InitFront == FrontInit /\ IdleBut("fm")
InitRoundTrip == RoundTripInit /\ IdleBut("fm")
InitBuild == BmInit /\ IdleBut("bm")
InitWorker == WkInit /\ IdleBut("wk")
InitCatalog == CtInit /\ IdleBut("ct")
InitStore == StInit /\ IdleBut("st")
InitPanel == OpInit /\ IdleBut("op")
InitEdit == EdInit /\ IdleBut("ed")
InitAuth == AuInit /\ IdleBut("au")
InitRepo == RpInit /\ IdleBut("rp")
InitParsers == PsInit /\ IdleBut("ps")
InitBus == EbInit /\ IdleBut("eb")

SpecDiff == InitDiff /\ [][DiffNext]_vars

SpecLoad == InitLoad /\ [][LoadNext]_vars

SpecFilter == InitFilter /\ [][FilterNext]_vars

SpecCombo == InitCombo /\ [][ComboNext]_vars

SpecFlatten == InitFlatten /\ [][FlattenNext]_vars

SpecInterpolate == InitInterpolate /\ [][TplNext]_vars

SpecFront == InitFront /\ [][FmNext]_vars

SpecRoundTrip == InitRoundTrip /\ [][FmNext]_vars

SpecBuild == InitBuild /\ [][BmNext]_vars

SpecWorker == InitWorker /\ [][WkNext]_vars

SpecCatalog == InitCatalog /\ [][CtNext]_vars

SpecStore == InitStore /\ [][StNext]_vars

SpecPanel == InitPanel /\ [][OpNext]_vars

SpecEdit == InitEdit /\ [][EdNext]_vars

SpecAuth == InitAuth /\ [][AuNext]_vars

SpecRepo == InitRepo /\ [][RpNext]_vars

SpecParsers == InitParsers /\ [][PsNext]_vars

SpecBus == InitBus /\ [][EbNext]_vars

(***************************************************************************)
(* Properties of the diff engine (SpecDiff).                               *)
(***************************************************************************)
\* The lines of the entries of `diff` whose type is in `types`, in order.
LinesOfTypes(diff, types) ==
  LET kept == SelectSeq(diff, LAMBDA e : e.type \in types)
  IN [i \in 1..Len(kept) |-> kept[i].line]

DiffReturned == diffPc \in {"diffed", "formatted"}

\* C1: once computeDiff has returned, the lines of its context and removed
\* entries, in emitted order, are original.split('\n') (and joined give back
\* `original`), and the lines of its context and added entries are
\* modified.split('\n') (and joined give back `modified`).
C1_DiffRoundTrip ==
  DiffReturned =>
    /\ LinesOfTypes(result, {"context", "removed"}) = Split(original)
    /\ LinesOfTypes(result, {"context", "added"}) = Split(modified)
    /\ Join(LinesOfTypes(result, {"context", "removed"})) = original
    /\ Join(LinesOfTypes(result, {"context", "added"})) = modified

\* A returned diff with all three entry types whose original ends in a newline.
C1_Witness ==
  /\ DiffReturned
  /\ \A t \in {"context", "removed", "added"} : \E i \in 1..Len(result) : result[i].type = t
  /\ Len(original) > 0
  /\ original[Len(original)] = NL

\* C2: for equal inputs computeDiff returns one context entry per line of the
\* input, in order, and nothing else, and formatUnifiedDiff returns the empty
\* string whatever contextLines is.
C2_DiffIdentity ==
  (original = modified) =>
    /\ DiffReturned =>
         result = [i \in 1..Len(Split(original)) |->
                     [type |-> "context", line |-> Split(original)[i]]]
    /\ diffPc = "formatted" => unified = <<>>

\* formatUnifiedDiff(X, X, c) has returned for an X that ends in a newline.
C2_Witness ==
  /\ diffPc = "formatted"
  /\ original = modified
  /\ Len(original) > 1
  /\ original[Len(original)] = NL
  /\ contextLines > 0

(***************************************************************************)
(* Properties of the loader and the load cycles (SpecLoad).                *)
(***************************************************************************)
IsLoaderCall(k) == calls[k].fn # "loadManifest"

Settled(k) == calls[k].st \in {"resolved", "rejected"}

LoaderCalls == {k \in 1..Len(calls) : IsLoaderCall(k)}

\* C3: a loader call that had the manifest settles by resolving, whatever the
\* outcome of each of its file fetches.
C3_LoaderAbsorbsItemFailures ==
  \A k \in LoaderCalls :
    (Settled(k) /\ calls[k].rejectedBy # "manifest") => calls[k].st = "resolved"

\* C4: a loader call whose manifest fetch failed is rejected and has no
\* result; the cache holds a manifest only if a getManifest fetch succeeded;
\* and a loader call that issued no manifest fetch of its own was preceded by
\* such a success, so that after a failure the next call fetches again.
SucceededBefore(k) ==
  \E j \in LoaderCalls :
    /\ j < k
    /\ calls[j].fetch # 0
    /\ manifestFetches[calls[j].fetch] = "ok"

C4_ManifestFailureRejectsAndRetries ==
  /\ \A k \in LoaderCalls :
       (calls[k].fetch # 0 /\ manifestFetches[calls[k].fetch] = "failed")
         => (calls[k].st = "rejected" /\ calls[k].value = <<>>)
  /\ (cachedManifest = "manifest") <=> SucceededBefore(Len(calls) + 1)
  /\ \A k \in LoaderCalls : calls[k].fetch = 0 => SucceededBefore(k)

\* A loader call was rejected by a failed manifest fetch, and a call of a
\* later cycle fetched the manifest again and got it.
C4_Witness ==
  \E k \in LoaderCalls, j \in LoaderCalls :
    /\ calls[k].rejectedBy = "manifest"
    /\ calls[j].cy > calls[k].cy
    /\ calls[j].fetch > calls[k].fetch
    /\ manifestFetches[calls[j].fetch] = "ok"
    /\ cycles[calls[k].cy].phase = "failed"

\* C5: a cycle takes its failure path only when the manifest was unavailable
\* to one of its loader calls.
C5_CycleFailsOnlyOnManifest ==
  \A cy \in 1..Len(cycles) :
    cycles[cy].phase = "failed" =>
      \E k \in LoaderCalls : calls[k].cy = cy /\ calls[k].rejectedBy = "manifest"

AllCyclesSettled == \A cy \in 1..Len(cycles) : cycles[cy].phase \in {"done", "failed"}

\* C6: once every cycle has settled, the store holds the results of the most
\* recently triggered cycle (when that cycle completed).
C6_LatestCycleWins ==
  (AllCyclesSettled /\ Len(cycles) > 0 /\ cycles[Len(cycles)].phase = "done") =>
    /\ store.fragments = cycles[Len(cycles)].allFragments
    /\ store.templateFiles = cycles[Len(cycles)].templateFiles

\* The place of a fragment in the request order of a cycle over `ids`:
\* technologies in selection order, each one's files in manifest order, then
\* the combinations in manifest order.
PositionIn(seq, x) == CHOOSE i \in 1..Len(seq) : seq[i] = x

RequestRank(ids, fragId) ==
  LET techs  == Manifest.technologies
      combos == Manifest.combinations
      tHits  == {<<t, f>> \in (1..Len(techs)) \X (1..4) :
                   /\ f <= Len(techs[t].fragments)
                   /\ FragmentFile(techs[t].fragments[f]).id = fragId
                   /\ Includes(ids, techs[t].id)}
      cHits  == {<<c, f>> \in (1..Len(combos)) \X (1..4) :
                   /\ f <= Len(combos[c].fragments)
                   /\ FragmentFile(combos[c].fragments[f]).id = fragId}
  IN IF tHits # {}
     THEN LET h == CHOOSE x \in tHits : TRUE
          IN 100 * PositionIn(ids, techs[h[1]].id) + h[2]
     ELSE IF cHits # {}
     THEN LET h == CHOOSE x \in cHits : TRUE
          IN 100 * (Len(ids) + h[1]) + h[2]
     ELSE 0

HasStored(cy) == cycles[cy].phase \in {"templates", "done"}

\* The ids of the fragments whose fetch succeeded in cycle cy.
OkIds(cy) ==
  {FragmentFile(calls[k].paths[j]).id :
     <<k, j>> \in {<<n, m>> \in LoaderCalls \X (1..4) :
                     /\ calls[n].cy = cy
                     /\ calls[n].fn = "loadFragments"
                     /\ m <= Len(calls[n].slots)
                     /\ calls[n].slots[m] = "ok"}}

\* C7: the fragment list a cycle stores is in request order - selected
\* technologies in selection order, each one's fragments in manifest order,
\* combination fragments last - and holds each fetched technology fragment
\* once, whatever order the fetches completed in.
C7_StoredOrderIsRequestOrder ==
  \A cy \in 1..Len(cycles) :
    HasStored(cy) =>
      LET F == cycles[cy].allFragments
      IN /\ \A i \in 1..(Len(F) - 1) :
              /\ RequestRank(cycles[cy].ids, F[i].id) > 0
              /\ RequestRank(cycles[cy].ids, F[i].id) < RequestRank(cycles[cy].ids, F[i + 1].id)
         /\ OkIds(cy) \subseteq {F[i].id : i \in 1..Len(F)}
         /\ \A i \in 1..Len(F) : F[i].technology \in TechIds => F[i].id \in OkIds(cy)

\* A cycle over the selection B, A stored all four fragments.
C7_Witness ==
  \E cy \in 1..Len(cycles) :
    /\ HasStored(cy)
    /\ cycles[cy].ids = <<"B", "A">>
    /\ Len(cycles[cy].allFragments) = 4
    /\ store.fragments = cycles[cy].allFragments

\* C8: at most one manifest fetch is ever in flight or succeeded.
C8_ManifestFetchedOnce ==
  Cardinality({i \in 1..Len(manifestFetches) : manifestFetches[i] \in {"inflight", "ok"}}) <= 1

\* Whether the owner of a fragment is part of the selection: a selected
\* technology, or a combination all of whose members are selected.
OwnerSelected(fragment, selectedIds) ==
  \/ Includes(selectedIds, fragment.technology)
  \/ \E c \in 1..Len(Manifest.combinations) :
       /\ Manifest.combinations[c].id = fragment.technology
       /\ \A m \in 1..Len(Manifest.combinations[c].technologies) :
            Includes(selectedIds, Manifest.combinations[c].technologies[m])

\* One entry of a dependency map holds of the current option values: the
\* value is present and equals the required scalar, or is one of the
\* required list's elements, with no conversion between types.
EntryHolds(entry, techOptions) ==
  /\ entry.optionId \in DOMAIN techOptions
  /\ LET current == techOptions[entry.optionId]
     IN /\ current # Undefined
        /\ IF entry.required.type = "array"
           THEN current \in {entry.required.items[i] : i \in 1..Len(entry.required.items)}
           ELSE current = entry.required

Eligible(fragment, options) ==
  \/ fragment.deps.kind # "map"
  \/ \A e \in 1..Len(fragment.deps.entries) :
       EntryHolds(fragment.deps.entries[e], TechOptionsOf(options, fragment.technology))

\* C9: with all loads settled, every fragment the preview presents is owned
\* by the current selection and has its dependency map satisfied.
C9_PresentedFragmentsAreEligible ==
  AllCyclesSettled =>
    LET presented == FilterFragments(store.fragments, store.options)
    IN \A i \in 1..Len(presented) :
         /\ OwnerSelected(presented[i], store.selectedTechIds)
         /\ Eligible(presented[i], store.options)

(***************************************************************************)
(* Properties of the dependency filter (SpecFilter).                       *)
(***************************************************************************)
\* C10: _filterFragments keeps exactly the fragments without a dependency
\* map and those whose every entry holds of the owner's current option
\* values, in their order.
C10_FilterKeepsEligible ==
  filterPc = "done" =>
    filterResult = SelectSeq(filterFragments, LAMBDA f : Eligible(f, filterOptions))

\* The filter ran on a fragment that requires the number 8 while the option
\* holds the string "8", and dropped it.
C10_Witness ==
  /\ filterPc = "done"
  /\ filterOptions = ("A" :> ("k" :> Str("8")))
  /\ Len(filterFragments) = 2
  /\ filterFragments[1].deps = DepMap(<<Dep("k", Num("8"))>>)
  /\ filterFragments[2].deps = DepMap(<<Dep("k", Arr(<<Str("8")>>))>>)
  /\ Len(filterResult) = 1

(***************************************************************************)
(* Properties of the combination match (SpecCombo).                        *)
(***************************************************************************)
Members(seq) == {seq[i] : i \in 1..Len(seq)}

\* The ids of the catalog's combinations whose member set is within `ids`.
ActiveCombos(ids) ==
  {comboCatalog[c].id : c \in {n \in 1..Len(comboCatalog) :
                                 Members(comboCatalog[n].technologies) \subseteq Members(ids)}}

ComboLoadedIffSubset ==
  /\ Members(comboLoaded) = ActiveCombos(comboIds)
  /\ Len(comboLoaded) = Cardinality(ActiveCombos(comboIds))

ComboMonotonic ==
  /\ Members(comboIds) \subseteq Members(comboIds') =>
       Members(comboLoaded) \subseteq Members(comboLoaded')
  /\ \A id \in Members(comboIds) \ Members(comboIds') :
       \A c \in 1..Len(comboCatalog) :
         id \in Members(comboCatalog[c].technologies) =>
           comboCatalog[c].id \notin Members(comboLoaded')

\* C11: loadCombinationFragments requests the fragments of a combination
\* iff every member of the combination is selected (a subset test), so the
\* active combinations only grow when an id is added, and removing an id
\* deactivates every combination that has it as a member.
C11_ComboSubsetRule == []ComboLoadedIffSubset /\ [][ComboMonotonic]_vars

\* A selection of three ids activates a combination over two of them while
\* another combination of the catalog stays inactive.
C11_Witness ==
  /\ Len(comboIds) = 3
  /\ \E c \in 1..Len(comboCatalog) :
       /\ Len(comboCatalog[c].technologies) = 2
       /\ comboCatalog[c].id \in Members(comboLoaded)
  /\ Len(comboLoaded) < Len(comboCatalog)

\* FilePreview._renderFragments: the filtered fragments grouped by owner, the
\* groups in order of first appearance.
GroupIds(filtered) ==
  LET firsts == SelectSeq([i \in 1..Len(filtered) |-> i],
                          LAMBDA i : \A j \in 1..(i - 1) :
                                       filtered[j].technology # filtered[i].technology)
  IN [g \in 1..Len(firsts) |-> filtered[firsts[g]].technology]

RECURSIVE RenderGroups(_, _, _)
RenderGroups(filtered, groups, g) ==
  IF g > Len(groups) THEN <<>>
  ELSE SelectSeq(filtered, LAMBDA f : f.technology = groups[g])
       \o RenderGroups(filtered, groups, g + 1)

RenderFragments(fragments, options) ==
  LET filtered == FilterFragments(fragments, options)
  IN RenderGroups(filtered, GroupIds(filtered), 1)

\* C12: the fragment sequence presented for a selection is sorted by
\* sortOrder ascending, ties in discovery order.
C12_PresentedSortedBySortOrder ==
  LET presented == RenderFragments(store.fragments, store.options)
      discovery(f) == CHOOSE i \in 1..Len(store.fragments) : store.fragments[i] = f
  IN \A i \in 1..Len(presented), j \in 1..Len(presented) :
       i < j =>
         IF presented[i].sortOrder = presented[j].sortOrder
         THEN discovery(presented[i]) < discovery(presented[j])
         ELSE presented[i].sortOrder < presented[j].sortOrder

(***************************************************************************)
(* Properties of flattenOptions (SpecFlatten).                             *)
(***************************************************************************)
\* The value of option o in the last component of `options` that defines it.
LastWriter(options, o) ==
  LET n == CHOOSE i \in 1..Len(options) :
             /\ HasOwn(options[i].value, o)
             /\ \A j \in (i + 1)..Len(options) : ~HasOwn(options[j].value, o)
  IN ObjGet(options[n].value, o)

\* C15: in the flat map, 'c.o' holds options[c][o] for every component c and
\* option o, and o holds the value of o in the last component that defines it.
C15_FlatKeysDisambiguate ==
  flattenPc = "done" =>
    \A c \in 1..Len(flattenOptionsArg) :
      \A o \in 1..Len(flattenOptionsArg[c].value) :
        LET techId == flattenOptionsArg[c].key
            key    == flattenOptionsArg[c].value[o].key
        IN /\ ObjGet(flat, techId \o <<".">> \o key) = flattenOptionsArg[c].value[o].value
           /\ ObjGet(flat, key) = LastWriter(flattenOptionsArg, key)

(***************************************************************************)
(* C13: every value substituted into a template, by interpolate and by the *)
(* packager's interpolation alike, is escaped: since the templates hold no *)
(* markup character, the output holds none of < > " ' and every & in it    *)
(* begins one of the five entities.                                        *)
(***************************************************************************)
Entities == {Amp, Lt, Gt, Quot, Apos}

EntityAt(s, i) ==
  \E ent \in Entities :
    /\ i + Len(ent) - 1 <= Len(s)
    /\ SubSeq(s, i, i + Len(ent) - 1) = ent

IsEscaped(s) ==
  \A i \in 1..Len(s) :
    /\ s[i] \notin {"<", ">", "\"", "'"}
    /\ s[i] = "&" => EntityAt(s, i)

C13_SubstitutedValuesEscaped ==
  (tplPc = "done" /\ tplFn \in Interpolators) => IsEscaped(tplOut)

(***************************************************************************)
(* C14: interpolate changes nothing but placeholders whose trimmed name is *)
(* a key of the variable map: its output is the template with some         *)
(* pairwise disjoint placeholders of that kind replaced by their escaped   *)
(* values and every other character kept, and with an empty map the output *)
(* is the template.                                                        *)
(***************************************************************************)
\* The spans <<first, last>> of s that read "{{", a non-empty run without "}", "}}".
Placeholders(s) ==
  {span \in (1..Len(s)) \X (1..Len(s)) :
     /\ span[2] - span[1] >= 4
     /\ s[span[1]] = "{" /\ s[span[1] + 1] = "{"
     /\ s[span[2] - 1] = "}" /\ s[span[2]] = "}"
     /\ \A k \in (span[1] + 2)..(span[2] - 2) : s[k] # "}"}

PlaceholderName(s, span) == Trim(SubSeq(s, span[1] + 2, span[2] - 2))

KeyedPlaceholders(s, vs) == {span \in Placeholders(s) : HasOwn(vs, PlaceholderName(s, span))}

Disjoint(spans) ==
  \A a, b \in spans : a # b => (a[2] < b[1] \/ b[2] < a[1])

\* s from position i on, with the spans of chosen replaced by their escaped values.
RECURSIVE Substituted(_, _, _, _)
Substituted(s, vs, chosen, i) ==
  IF i > Len(s) THEN <<>>
  ELSE IF \E span \in chosen : span[1] = i
  THEN LET span == CHOOSE sp \in chosen : sp[1] = i
       IN escapeHtml(ObjGet(vs, PlaceholderName(s, span)))
          \o Substituted(s, vs, chosen, span[2] + 1)
  ELSE <<s[i]>> \o Substituted(s, vs, chosen, i + 1)

C14_InterpolateFrame ==
  (tplPc = "done" /\ tplFn = "interpolate") =>
    /\ \E chosen \in SUBSET KeyedPlaceholders(templateContent, variables) :
         /\ Disjoint(chosen)
         /\ tplOut = Substituted(templateContent, variables, chosen, 1)
    /\ variables = EmptyObject => tplOut = templateContent

\* A template with a keyed placeholder next to one that is not keyed.
C14_Witness ==
  /\ tplPc = "done" /\ tplFn = "interpolate"
  /\ KeyedPlaceholders(templateContent, variables) # {}
  /\ Placeholders(templateContent) # KeyedPlaceholders(templateContent, variables)
  /\ tplOut # templateContent

PlainString(chars) ==
  /\ chars # <<>>
  /\ Trim(chars) = chars
  /\ chars \notin {TrueChars, FalseChars}
  /\ ~AllDigits(chars) /\ ~IsDecimal(chars)
  /\ ~(StartsWith(chars, <<"\"">>) /\ EndsWith(chars, <<"\"">>))
  /\ ~(StartsWith(chars, <<"'">>) /\ EndsWith(chars, <<"'">>))
  /\ \A i \in 1..Len(chars) : chars[i] # NL
  /\ IndexOfString(chars, Delimiter, 0) = -1

PlainScalar(value) == value.type = "string" => PlainString(value.chars)

PlainMap(metadata) ==
  \A i \in 1..Len(metadata) :
    IF metadata[i].value.type = "object"
    THEN /\ metadata[i].value.entries # EmptyObject
         /\ \A n \in 1..Len(metadata[i].value.entries) :
              PlainScalar(metadata[i].value.entries[n].value)
    ELSE PlainScalar(metadata[i].value)

IsDelimiterLine(line) == TrimEnd(line) = Delimiter

ClosingLines(lines) == {n \in 2..Len(lines) : IsDelimiterLine(lines[n])}

C17_HeaderNeedsClosingLine ==
  fmPc = "done" =>
    LET trimmed == Trim(markdownText)
        lines == Split(trimmed)
    IN IF StartsWith(trimmed, Delimiter) /\ ClosingLines(lines) # {}
       THEN LET closing == CHOOSE n \in ClosingLines(lines) :
                             \A m \in ClosingLines(lines) : n <= m
                between == <<SubSeq(lines[1], 4, Len(lines[1]))>> \o SubSeq(lines, 2, closing - 1)
            IN /\ parsed.metadata = ParseBlock(Trim(Join(between)))
               /\ parsed.content = Trim(Join(SubSeq(lines, closing + 1, Len(lines))))
       ELSE parsed = [metadata |-> EmptyObject, content |-> trimmed]

(***************************************************************************)
(* C18: in a recognised header a `key:` line opens a nested map that holds *)
(* the indented `subkey: value` lines up to the next top-level key line,   *)
(* and every top-level key of the metadata is the key of a line that is    *)
(* not indented.                                                           *)
(***************************************************************************)
HeaderRecognised ==
  /\ StartsWith(Trim(markdownText), Delimiter)
  /\ IndexOfString(Trim(markdownText), Delimiter, 3) # -1

\* The lines of the header block as they stand in the text.
HeaderLines ==
  Split(Substring(Trim(markdownText), 3, IndexOfString(Trim(markdownText), Delimiter, 3)))

IsIndented(line) == Len(line) > 0 /\ Head(line) \in {" ", "\t"}

IsTopKeyLine(line) == ~IsIndented(line) /\ TopMatch(Trim(line)).ok

IsSubKeyLine(line) == IsIndented(line) /\ IndentedMatch(line).ok

TopKey(line) == TopMatch(Trim(line)).key

Opens(line) == IsTopKeyLine(line) /\ TopMatch(Trim(line)).value = <<>>

\* The nested map written by the indented lines from line n up to the next
\* top-level key line.
RECURSIVE NestedFrom(_, _, _)
NestedFrom(lines, n, acc) ==
  IF n > Len(lines) \/ IsTopKeyLine(lines[n]) THEN acc
  ELSE IF IsSubKeyLine(lines[n])
  THEN NestedFrom(lines, n + 1,
                  ObjSet(acc, IndentedMatch(lines[n]).key,
                         parseScalarValue(IndentedMatch(lines[n]).value)))
  ELSE NestedFrom(lines, n + 1, acc)

IsLastOccurrence(lines, n) ==
  /\ IsTopKeyLine(lines[n])
  /\ \A m \in (n + 1)..Len(lines) : IsTopKeyLine(lines[m]) => TopKey(lines[m]) # TopKey(lines[n])

C18_NestedLinesAndTopLevelKeys ==
  (fmPc = "done" /\ HeaderRecognised) =>
    LET lines == HeaderLines
    IN /\ \A n \in 1..Len(lines) :
            (/\ Opens(lines[n])
             /\ IsLastOccurrence(lines, n)
             /\ NestedFrom(lines, n + 1, EmptyObject) # EmptyObject)
            => ObjGet(parsed.metadata, TopKey(lines[n]))
                 = MapValue(NestedFrom(lines, n + 1, EmptyObject))
       /\ \A i \in 1..Len(parsed.metadata) :
            \E n \in 1..Len(lines) :
              IsTopKeyLine(lines[n]) /\ TopKey(lines[n]) = parsed.metadata[i].key

(***************************************************************************)
(* C19: a top-level key that occurs more than once holds the value of its  *)
(* last occurrence: the scalar of a `key: value` line, the nested map of a *)
(* `key:` line (a `key:` line without subkey lines gives an empty map or   *)
(* no value).  Stated for headers in which every indented subkey line      *)
(* follows a `key:` line.                                                  *)
(***************************************************************************)
\* Every indented subkey line lies under a line that opens a nested map.
WellIndented(lines) ==
  \A m \in 1..Len(lines) :
    IsSubKeyLine(lines[m]) =>
      \E n \in 1..(m - 1) :
        /\ Opens(lines[n])
        /\ \A k \in (n + 1)..(m - 1) : ~IsTopKeyLine(lines[k])

OccursAgain(lines, n) ==
  \E m \in 1..Len(lines) : m # n /\ IsTopKeyLine(lines[m]) /\ TopKey(lines[m]) = TopKey(lines[n])

C19_LastOccurrenceWins ==
  (fmPc = "done" /\ HeaderRecognised /\ WellIndented(HeaderLines)) =>
    LET lines == HeaderLines
    IN \A n \in 1..Len(lines) :
         (IsLastOccurrence(lines, n) /\ OccursAgain(lines, n)) =>
           LET held == ObjGet(parsed.metadata, TopKey(lines[n]))
               nested == NestedFrom(lines, n + 1, EmptyObject)
           IN IF ~Opens(lines[n]) THEN held = parseScalarValue(TopMatch(Trim(lines[n])).value)
              ELSE IF nested = EmptyObject THEN held = Undefined \/ held = MapValue(EmptyObject)
              ELSE held = MapValue(nested)

(***************************************************************************)
(* C20: every metadata value is a boolean, a number, a string, or a map    *)
(* whose values are booleans, numbers or strings: no list, no map inside a *)
(* nested map.                                                             *)
(***************************************************************************)
IsScalar(value) == value.type \in {"boolean", "number", "string"}

Entries == NumberEntries(result, 1, 1, 1)

HasChanges == ChangeIndices(Entries) # <<>>

\* The 0-based indices of the changes, as a set.
Changes == {i \in 0..(Len(Entries) - 1) : Entries[i + 1].type # "context"}

InHunk(hunk, i) == hunk.start <= i /\ i <= hunk.end

Distance(i, j) == IF i >= j THEN i - j ELSE j - i

\* C21: the hunks are ranges of the entries, ascending and pairwise disjoint;
\* every change lies in a hunk; a context entry of a hunk is within
\* contextLines entries of a change of that hunk; two changes whose context
\* windows overlap lie in the same hunk.
C21_HunksGroupChanges ==
  (diffPc = "formatted" /\ HasChanges) =>
    LET hunks == Hunks(Entries, contextLines)
        n == Len(Entries)
    IN /\ \A k \in 1..Len(hunks) :
            0 <= hunks[k].start /\ hunks[k].start <= hunks[k].end /\ hunks[k].end <= n - 1
       /\ \A k \in 1..(Len(hunks) - 1) : hunks[k].end < hunks[k + 1].start
       /\ \A i \in Changes : \E k \in 1..Len(hunks) : InHunk(hunks[k], i)
       /\ \A k \in 1..Len(hunks) :
            \A i \in hunks[k].start..hunks[k].end :
              i \notin Changes =>
                \E j \in Changes : InHunk(hunks[k], j) /\ Distance(i, j) <= contextLines
       /\ \A i, j \in Changes :
            (i < j /\ Max(0, j - contextLines) <= Min(n - 1, i + contextLines)) =>
              \E k \in 1..Len(hunks) : InHunk(hunks[k], i) /\ InHunk(hunks[k], j)

\* A hunk merged from two changes with context entries between them.
C21_Witness ==
  /\ diffPc = "formatted" /\ HasChanges
  /\ contextLines >= 1
  /\ \E k \in 1..Len(Hunks(Entries, contextLines)) :
       \E i, j \in Changes :
         /\ i + 1 < j
         /\ InHunk(Hunks(Entries, contextLines)[k], i)
         /\ InHunk(Hunks(Entries, contextLines)[k], j)
         /\ \A m \in (i + 1)..(j - 1) : m \notin Changes

\* The hunk header lines of the returned diff, in order.
Headers == SelectSeq(unified, LAMBDA l : l.kind = "@@")

\* The entries before 0-based index i that stand on the original / modified side.
OrigBefore(i) == Len(OrigSide(SubSeq(Entries, 1, i)))
ModBefore(i) == Len(ModSide(SubSeq(Entries, 1, i)))

\* A start is the 1-based number of the first line of the hunk on that side;
\* on a side where the hunk has no line, the number of the line before or
\* after the place where it begins.
StartsAt(start, count, before) ==
  IF count > 0 THEN start = before + 1 ELSE start \in {before, before + 1}

\* C22: the header of every hunk counts the hunk's context+removed entries
\* and its context+added entries, and its starts are the 1-based numbers of
\* the original and the modified line at which the hunk begins.
C22_HunkHeaderNumbers ==
  (diffPc = "formatted" /\ HasChanges) =>
    LET hunks == Hunks(Entries, contextLines)
    IN /\ Len(Headers) = Len(hunks)
       /\ \A k \in 1..Len(hunks) :
            /\ Headers[k].origCount = Len(OrigSide(HunkEntries(Entries, hunks[k])))
            /\ Headers[k].modCount = Len(ModSide(HunkEntries(Entries, hunks[k])))
            /\ StartsAt(Headers[k].origStart, Headers[k].origCount, OrigBefore(hunks[k].start))
            /\ StartsAt(Headers[k].modStart, Headers[k].modCount, ModBefore(hunks[k].start))

\* C29: in computeDiff's output a removed entry never follows an added entry
\* without a context entry between them.
C29_RemovedBeforeAdded ==
  \A i, j \in 1..Len(result) :
    (i < j /\ result[i].type = "added" /\ result[j].type = "removed") =>
      \E k \in (i + 1)..(j - 1) : result[k].type = "context"

\* A returned diff with a run of two removed entries followed by an added one,
\* and a later change after a context entry.
C29_Witness ==
  /\ DiffReturned
  /\ \E i \in 1..(Len(result) - 2) :
       /\ result[i].type = "removed"
       /\ result[i + 1].type = "removed"
       /\ result[i + 2].type = "added"
  /\ \E i, j \in 1..Len(result) :
       i < j /\ result[i].type = "added" /\ result[j].type = "context"

\* The length of a longest common subsequence, by the recurrence on the heads.
RECURSIVE LongestCommon(_, _)
LongestCommon(a, b) ==
  IF Len(a) = 0 \/ Len(b) = 0 THEN 0
  ELSE IF Head(a) = Head(b) THEN 1 + LongestCommon(Tail(a), Tail(b))
  ELSE Max(LongestCommon(Tail(a), b), LongestCommon(a, Tail(b)))

\* C30: the context entries of computeDiff's output are the computed LCS,
\* their number is the length of a longest common subsequence of the two
\* line sequences, and so the removed and added entries are as few as any
\* line diff of the pair can have.
C30_ContextIsLongestCommon ==
  DiffReturned =>
    LET a == Split(original)
        b == Split(modified)
        changed == Len(SelectSeq(result, LAMBDA e : e.type # "context"))
    IN /\ LinesOfTypes(result, {"context"}) = lcs
       /\ Len(lcs) = LongestCommon(a, b)
       /\ changed = Len(a) + Len(b) - 2 * LongestCommon(a, b)

\* Inputs whose first lines differ and whose longest common subsequence has
\* two lines, returned with removed and added entries.
C30_Witness ==
  /\ DiffReturned
  /\ Len(lcs) = 2
  /\ originalLines[1] # modifiedLines[1]
  /\ \E i, j \in 1..Len(result) : result[i].type = "removed" /\ result[j].type = "added"

(***************************************************************************)
(* C23: extractVariables returns every trimmed placeholder name of the     *)
(* template once, in the order of first occurrence, with the template left *)
(* as it was; the names are those interpolate looks up for the template,   *)
(* and the manifest builder's scan of the same content gives the same list.*)
(***************************************************************************)
FirstOccurrence(names, name) == CHOOSE i \in 1..Len(names) :
  names[i] = name /\ \A j \in 1..(i - 1) : names[j] # name

ExtractedInOrder ==
  (tplPc = "done" /\ tplFn \in Extractors) =>
    LET lookedUp == ScannedNames(templateContent, 1)
    IN /\ \A i, j \in 1..Len(tplOut) : tplOut[i] = tplOut[j] => i = j
       /\ {tplOut[i] : i \in 1..Len(tplOut)} = {lookedUp[i] : i \in 1..Len(lookedUp)}
       /\ \A i, j \in 1..Len(tplOut) :
            i < j => FirstOccurrence(lookedUp, tplOut[i]) < FirstOccurrence(lookedUp, tplOut[j])

C23_ExtractVariables == []ExtractedInOrder /\ [][templateContent' = templateContent]_vars

\* Two names extracted from a template that names the first of them twice,
\* once with inner whitespace.
C23_Witness ==
  /\ tplPc = "done" /\ tplFn = "extractVariables"
  /\ Len(tplOut) = 2
  /\ Len(ScannedNames(templateContent, 1)) = 3
  /\ ScannedNames(templateContent, 1)[3] = tplOut[1]

(***************************************************************************)
(* C24: the manifest build never aborts, and the manifest it writes lists  *)
(* exactly the technologies and the combinations whose meta.json could be  *)
(* read and parsed, each list in ascending id order.                       *)
(***************************************************************************)
Readable(dirs) ==
  SelectSeq(SortNames(listDirs(dirs)),
            LAMBDA id : DirNamed(dirs, id).meta \in {"object", "null"})

C24_BuildSkipsBadDescriptors ==
  /\ bmPc # "failed"
  /\ bmPc = "written" =>
       /\ bmTechnologies = Readable(bmTechDirs)
       /\ bmCombinations = Readable(bmComboDirs)

(***************************************************************************)
(* The worker's handlers.                                                  *)
(***************************************************************************)
\* C25: handleAuthCallback exchanges the authorization code for a token only
\* when the callback's `state` is one that handleAuthRedirect generated; a
\* callback whose state is missing or unknown makes no token exchange.
C25_CallbackChecksState ==
  (wkHandler = "handleAuthCallback" /\ wkCalls # <<>>) => wkRequest.state \in wkStates

\* The header is absent or is not `Bearer ` followed by a token.
NotBearer(header) ==
  \/ header.type = "null"
  \/ Len(header.chars) <= Len(BearerPrefix)
  \/ SubSeq(header.chars, 1, Len(BearerPrefix)) # BearerPrefix

\* The body is a JSON object in which a field of `fields` is missing or empty.
LacksField(body, fields) == body.json = "object" /\ fields \ body.truthy # {}

Rejected(status) == wkStatus = status /\ wkCalls = <<>>

Incompatible(a, b) == b \in ctManifest[a] \/ a \in ctManifest[b]

NoIncompatiblePair ==
  \A i, j \in 1..Len(ctSelected) : ~Incompatible(ctSelected[i], ctSelected[j])

\* A toggle that asks to select a technology incompatible with a selected
\* one leaves selectedTechIds as it was and raises a warning.
IncompatibleToggleRefused ==
  (/\ ctClick'.toggled
   /\ ctClick'.selected
   /\ \E k \in 1..Len(ctSelected) : Incompatible(ctClick'.techId, ctSelected[k]))
  => (ctSelected' = ctSelected /\ ctToast' = "warning")

Invocations(callback) ==
  Cardinality({i \in 1..Len(stInvoked) : stInvoked[i].callback = callback})

\* C28: store.set(key, v) updates the state and then invokes every callback
\* subscribed to key exactly once, with the new value, and no callback for
\* another key; a callback whose unsubscribe function has been called is
\* not invoked by a later set.
C28_SetNotifiesSubscribers ==
  stLast.op = "set" =>
    /\ stState[stLast.key] = stLast.value
    /\ \A i \in 1..Len(stInvoked) :
         stInvoked[i].key = stLast.key /\ stInvoked[i].value = stLast.value
    /\ \A callback \in Callbacks :
         Invocations(callback) =
           IF [key |-> stLast.key, callback |-> callback] \in stSubscribed THEN 1 ELSE 0

\* A set has notified one callback while another, whose unsubscribe function
\* was called, and a third subscription on the other key were passed over.
C28_Witness ==
  /\ stLast.op = "set"
  /\ Len(stInvoked) = 1
  /\ \E unsub \in stUnsubscribers : unsub.key = stLast.key /\ unsub \notin stSubscribed
  /\ \E sub \in stSubscribed : sub.key # stLast.key

\* The positions in wkCalls of the requests for an operation.
Positions(op) == {i \in 1..Len(wkCalls) : wkCalls[i].op = op}

\* The files the request asks to commit.
FilesAsked == IF wkHandler = "handleCreatePR" THEN wkRequest.body.files ELSE 1

\* C31: handleCreatePR and the contribution handlers create the branch, then
\* commit the files on it (handleCreatePR one commit per file, in request
\* order), then open the pull request; a failed step is the last one and is
\* answered with an error, so a pull request is opened only after every file
\* was committed.
C31_BranchCommitsPullRequest ==
  wkHandler \in {"handleCreatePR", "handleSubmit", "handleAnonymous"} =>
    /\ \A c \in Positions("createOrUpdateFile") :
         /\ \E b \in Positions("createBranch") : b < c /\ wkCalls[b].ok
         /\ wkCalls[c].file = Cardinality({d \in Positions("createOrUpdateFile") : d <= c})
    /\ \A p \in Positions("createPullRequest") :
         /\ \A c \in Positions("createOrUpdateFile") : c < p
         /\ \E b \in Positions("createBranch") : b < p
         /\ Cardinality({c \in Positions("createOrUpdateFile") : wkCalls[c].ok}) = FilesAsked
    /\ \A i \in 1..Len(wkCalls) :
         ~wkCalls[i].ok => (i = Len(wkCalls) /\ wkStatus >= 400)

\* handleCreatePR committed the first of two files, failed on the second and
\* opened no pull request.
C31_Witness ==
  /\ wkHandler = "handleCreatePR"
  /\ wkRequest.body.files = 2
  /\ \E c \in Positions("createOrUpdateFile") : wkCalls[c].file = 1 /\ wkCalls[c].ok
  /\ \E c \in Positions("createOrUpdateFile") : wkCalls[c].file = 2 /\ ~wkCalls[c].ok
  /\ Positions("createPullRequest") = {}
  /\ wkStatus >= 400

(***************************************************************************)
(* The option panel.                                                       *)
(***************************************************************************)
\* The value the store holds for an option, Undefined when it holds none.
OptionValue(options, techId, optionId) == ValueOf(TechOptionsOf(options, techId), optionId)

\* The default of an option: for a single-select the choice flagged default,
\* else the first choice; for a toggle whether default is true; for a
\* freeform the default string or ''.
IsDefaultOf(value, option) ==
  CASE option.type = "single-select" ->
         IF \E c \in 1..Len(option.choices) : option.choices[c].default
         THEN \E c \in 1..Len(option.choices) :
                /\ option.choices[c].default
                /\ \A b \in 1..(c - 1) : ~option.choices[b].default
                /\ value = Str(option.choices[c].id)
         ELSE Len(option.choices) > 0 => value = Str(option.choices[1].id)
    [] option.type = "toggle" -> value = Bool(IF option.default = Bool("true") THEN "true" ELSE "false")
    [] OTHER -> value = (IF option.default = Undefined THEN Str("") ELSE option.default)

EverySelectedOptionHasValue ==
  \A tech \in 1..Len(opTechnologies) :
    Includes(opSelected, opTechnologies[tech].id) =>
      \A o \in 1..Len(opTechnologies[tech].options) :
        OptionValue(opOptions, opTechnologies[tech].id, opTechnologies[tech].options[o].id)
          # Undefined

RenderKeepsValues ==
  opLast'.op = "render" =>
    \A tech \in 1..Len(opTechnologies) :
      \A o \in 1..Len(opTechnologies[tech].options) :
        LET techId == opTechnologies[tech].id
            option == opTechnologies[tech].options[o]
            before == OptionValue(opOptions, techId, option.id)
            after  == OptionValue(opOptions', techId, option.id)
        IN IF before # Undefined THEN after = before
           ELSE after # Undefined => IsDefaultOf(after, option)

\* C32: after the panel renders for a selection, `options` holds a value for
\* every option of every selected technology; a value that was missing is the
\* option's default, and a value that was set is never overwritten, also not
\* when its technology is deselected and selected again.
C32_RenderInitialisesDefaults ==
  []EverySelectedOptionHasValue /\ [][RenderKeepsValues]_vars

\* Technology A has just been selected again and its toggle still holds the
\* value false that was set against a default of true.
C32_Witness ==
  /\ opLast.op = "render" /\ opLast.techId = "A" /\ opLast.selected
  /\ Len(opTechnologies[1].options) = 2
  /\ opTechnologies[1].options[2].type = "toggle"
  /\ opTechnologies[1].options[2].default = Bool("true")
  /\ OptionValue(opOptions, "A", "o2") = Bool("false")

(***************************************************************************)
(* Local edits.                                                            *)
(***************************************************************************)
\* C33: after any sequence of Save actions localEdits has an entry for the
\* fragment exactly when the last saved text differs from the loaded content,
\* and the content used for the fragment (by the render and, outside edit
\* mode, by Suggest Change) is that entry whenever it is present, the empty
\* string included, and the loaded content otherwise.
C33_LocalEditOverrides ==
  /\ (edLocalEdit # Undefined) = (edSaved # Undefined /\ edSaved # edContent)
  /\ (edLast = "render" \/ (edLast = "suggest" /\ ~edEditing)) =>
       edUsed = (IF edLocalEdit # Undefined THEN edLocalEdit ELSE edContent)

(***************************************************************************)
(* Termination of computeDiff.                                             *)
(***************************************************************************)
BranchEnabled ==
  diffPc = "walk" =>
    /\ origIdx <= Len(originalLines) /\ modIdx <= Len(modifiedLines)
    /\ LoopCondition => (IsContextStep \/ IsRemovedStep \/ IsAddedStep)

WalkAdvances ==
  (diffPc = "walk" /\ diffPc' = "walk") => origIdx' + modIdx' > origIdx + modIdx

\* C34: computeDiff terminates: in every state of its walk in which a cursor
\* is short of its end one of the three branches is enabled, and every pass
\* of the loop advances a cursor that never passes its end, so the loop
\* never continues without progress.
C34_ComputeDiffTerminates == []BranchEnabled /\ [][WalkAdvances]_vars

\* The walk stands before a common line of the original while the modified
\* text has a line of its own to add first.
C34_Witness ==
  /\ diffPc = "walk"
  /\ IsAddedStep
  /\ origIdx < Len(originalLines)
  /\ lcsIdx < Len(lcs)

(***************************************************************************)
(* C35: a load cycle that fails part-way.                                  *)
(***************************************************************************)
\* Cycle cy went past store.set('fragments', allFragments): its loadTemplates
\* calls are made right after it.
StoredFragments(cy) ==
  \E k \in LoaderCalls : calls[k].cy = cy /\ calls[k].fn = "loadTemplates"

\* C35: a cycle that took its failure path has left the store as it was: it
\* replaced neither `fragments` nor `templateFiles` (only a cycle that
\* completes replaces the two keys, and it replaces both).
C35_FailedCycleLeavesStore ==
  \A cy \in 1..Len(cycles) :
    /\ cycles[cy].phase = "failed" => ~StoredFragments(cy)
    /\ cycles[cy].phase = "done" => StoredFragments(cy)

(***************************************************************************)
(* Properties of the OAuth client (SpecAuth).                              *)
(***************************************************************************)
\* C36: a token message from the popup, with startAuth invoked any number
\* of times before it, stores the token and emits AUTH_SUCCESS exactly once;
\* a message from another origin, or without type 'github-oauth' and a
\* token, never changes githubToken.
C36_TokenStoredOnce ==
  auLast.op = "message" =>
    IF IsTokenMessage(auLast.event)
    THEN auLast.listeners > 0 =>
           /\ auLast.sets = 1 /\ Len(auEmitted) = 1
           /\ auToken = auLast.event.data.token
    ELSE auLast.sets = 0 /\ auToken = auLast.before

(***************************************************************************)
(* Properties of the repository setting (SpecRepo).                        *)
(***************************************************************************)
\* C37: a loader call made after the latest setPromptRepoUrl(owner, repo)
\* takes its file lists from the manifest of that repository, and never
\* combines the memoized manifest of another repository with its URLs.
C37_ManifestOfConfiguredRepo ==
  \A k \in 1..Len(rpCalls) :
    (rpCalls[k].st = "done" /\ rpCalls[k].sets = rpSets /\ rpSets > 0) =>
      /\ rpCalls[k].manifest = getBaseUrl(rpOwner, rpName)
      /\ rpCalls[k].manifest = rpCalls[k].urls

(***************************************************************************)
(* Properties of the two header parsers (SpecParsers).                     *)
(***************************************************************************)
\* C38: the build-time parser and the runtime parser return the same
\* metadata and the same body for every text.
C38_ParsersAgree ==
  (psRuntime # NotParsedYet /\ psBuild # NotParsedYet) =>
    /\ psRuntime.metadata = psBuild.metadata
    /\ psRuntime.content = psBuild.content

\* Both parsers have read a text with a nested map holding a quoted scalar,
\* and a body.
C38_Witness ==
  /\ psRuntime # NotParsedYet /\ psBuild # NotParsedYet
  /\ psBuild.content # <<>>
  /\ \E i \in 1..Len(psBuild.metadata) :
       /\ psBuild.metadata[i].value.type = "object"
       /\ \E j \in 1..Len(psBuild.metadata[i].value.entries) :
            psBuild.metadata[i].value.entries[j].value = StringValue(TrueChars)

(***************************************************************************)
(* Properties of the event bus (SpecBus).                                  *)
(***************************************************************************)
\* C39: a callback registered with once is invoked at most once over any
\* sequence of emits, an emit of the same event from inside the callback
\* included, and never when the function once returned was called before the
\* first emit reached it.
C39_OnceAtMostOnce ==
  \A id \in 1..Len(ebRegs) :
    ebRegs[id].kind = "once" =>
      /\ ebInvoked[id] <= 1
      /\ id \in ebCancelled => ebInvoked[id] = 0

\* A once callback that emits its event again was invoked and the event was
\* emitted once more afterwards; another once handler was cancelled first.
C39_Witness ==
  /\ ebEmits = 2
  /\ \E id, other \in 1..Len(ebRegs) :
       /\ ebRegs[id].kind = "once" /\ ebRegs[id].emits /\ ebInvoked[id] = 1
       /\ ebRegs[other].kind = "once" /\ ebRegs[other].event = ebRegs[id].event
       /\ other \in ebCancelled

(***************************************************************************)
(* C40: interpolation is a single pass.                                    *)
(***************************************************************************)
\* s with every character c replaced by d.
MapChar(s, c, d) == [i \in 1..Len(s) |-> IF s[i] = c THEN d ELSE s[i]]

\* Braces written as brackets, and back.  No template holds a bracket.
Masked(s) == MapChar(MapChar(s, "{", "["), "}", "]")
Unmasked(s) == MapChar(MapChar(s, "[", "{"), "]", "}")

\* The variable map with the braces of its string values masked.
MaskedValues(vs) ==
  [i \in 1..Len(vs) |->
     IF vs[i].value.type = "string"
     THEN Property(vs[i].key, StringValue(Masked(vs[i].value.chars)))
     ELSE vs[i]]

Interpolated(fn, content, vs) ==
  IF fn = "interpolate" THEN interpolate(content, vs) ELSE interpolateTemplate(content, vs)

\* The text interpolation puts in the place of a placeholder named `name`.
InsertedText(fn, vs, name) ==
  IF fn = "interpolate" THEN escapeHtml(ObjGet(vs, name)) ELSE StringOf(ObjGet(vs, name))

\* C40: interpolate and interpolateTemplate make a single pass: the text put
\* in the place of a placeholder is never scanned again.  The output is what
\* it would be were the braces of the values not braces at all, and a
\* template that is one keyed placeholder gives the value as it is, a
\* `{{other}}` inside it included.
C40_SinglePass ==
  (tplPc = "done" /\ tplFn \in Interpolators) =>
    /\ tplOut = Unmasked(Interpolated(tplFn, templateContent, MaskedValues(variables)))
    /\ \A name \in {<<"x">>, <<"y">>} :
         (templateContent = <<"{", "{">> \o name \o <<"}", "}">> /\ HasOwn(variables, name))
           => tplOut = InsertedText(tplFn, variables, name)

\* A placeholder was replaced by a value that reads as a placeholder of
\* another key of the map.
C40_Witness ==
  /\ tplPc = "done" /\ tplFn \in Interpolators
  /\ HasOwn(variables, <<"y">>)
  /\ HasOwn(variables, <<"x">>)
  /\ ObjGet(variables, <<"x">>) = StringValue(<<"{", "{", "y", "}", "}">>)
  /\ templateContent = <<"a", "{", "{", " ", "x", " ", "}", "}", "{", "{", " ", "y", "}", "}">>
  /\ tplOut = <<"a", "{", "{", "y", "}", "}", "v">>

====
